---- MODULE Spec2Model ----
(***************************************************************************)
(* A model of the RBACRule controller: the binding expansion parser        *)
(* (internal/parser/parser.go) and the reconciliation state machine        *)
(* (internal/controller/rbacrule_controller.go), run against an object     *)
(* store with create/update/delete/list/get semantics.                     *)
(*                                                                         *)
(* One reconciliation pass of a rule is a sequence of steps, one step per  *)
(* call to the object store (or per clock read); passes of different rules *)
(* interleave, passes of one rule do not (work queue guarantee).  Every    *)
(* store call may fail with a transient error.                             *)
(***************************************************************************)
EXTENDS Naturals, Integers, Sequences, FiniteSets, TLC

(***************************************************************************)
(* Bounds of the model.                                                    *)
(***************************************************************************)
\* the clock runs over 1..MaxTime; a zero time.Time{} is modelled by 0
MaxTime == 4

(***************************************************************************)
(* Program constants.                                                      *)
(***************************************************************************)
RBACRuleFinalizer == "rbac-controller.io/cleanup-rbac-rule"
\* parser.go: const CRB = "ClusterRole", RB = "Role"
CRB == "ClusterRole"
RB == "Role"
\* api/v1alpha1 SubjectType values
User == "User"
Group == "Group"
ServiceAccount == "ServiceAccount"
\* the fixed retry delay of object-mutation failures, in milliseconds
RetryDelayMs == 500

(***************************************************************************)
(* Sequence helpers (package slices, append, range).                       *)
(***************************************************************************)
Range(s) == {s[i] : i \in DOMAIN s}

\* slices.Index(s, v): the first index of v in s (0-based), or -1
RECURSIVE IndexFrom(_, _, _)
IndexFrom(s, v, i) ==
    IF i > Len(s) THEN -1
    ELSE IF s[i] = v THEN i - 1
    ELSE IndexFrom(s, v, i + 1)

Index(s, v) == IndexFrom(s, v, 1)

\* slices.Delete(s, i, j): removes s[i:j] (0-based, half open); panics when
\* s[i:j] is not a valid slice of s
DeletePanics(s, i, j) == i < 0 \/ j < i \/ j > Len(s)

Delete(s, i, j) == SubSeq(s, 1, i) \o SubSeq(s, j + 1, Len(s))

\* finite maps with a dynamic domain (the collections of the object store)
Put(f, k, v) == [x \in (DOMAIN f) \cup {k} |-> IF x = k THEN v ELSE f[x]]

Del(f, k) == [x \in (DOMAIN f) \ {k} |-> f[x]]

EmptyMap == [x \in {} |-> 0]

(***************************************************************************)
(* Namespace selection (metav1.LabelSelector) and the Namespace Resolver.  *)
(* A selector is [hasMatchLabels, matchLabels, hasMatchExpressions,        *)
(* matchExpressions]: hasMatchLabels is "MatchLabels != nil", matchLabels  *)
(* a set of <<key, value>> pairs, hasMatchExpressions is                   *)
(* "MatchExpressions != nil" (a list decoded from [] is empty and not      *)
(* nil), matchExpressions a sequence of [key, operator, values].  A        *)
(* namespace's labels are a set of <<key, value>> pairs.                   *)
(***************************************************************************)
RBACApiGroup == "rbac.authorization.k8s.io"

\* a selector with nil MatchLabels and no expression
NoSelector ==
    [hasMatchLabels |-> FALSE, matchLabels |-> {},
     hasMatchExpressions |-> FALSE, matchExpressions |-> <<>>]

\* nameSpaceSelector: {matchExpressions: []}
EmptyExpressionsSelector == [NoSelector EXCEPT !.hasMatchExpressions = TRUE]

ValidOperators == {"In", "NotIn", "Exists", "DoesNotExist"}

\* the characters of label keys and values
LowerCase == {"a", "b", "c", "d", "e", "f", "g", "h", "i", "j", "k", "l", "m",
              "n", "o", "p", "q", "r", "s", "t", "u", "v", "w", "x", "y", "z"}

UpperCase == {"A", "B", "C", "D", "E", "F", "G", "H", "I", "J", "K", "L", "M",
              "N", "O", "P", "Q", "R", "S", "T", "U", "V", "W", "X", "Y", "Z"}

Digits == {"0", "1", "2", "3", "4", "5", "6", "7", "8", "9"}

AlphaNum == LowerCase \cup UpperCase \cup Digits

CharAt(s, i) == SubSeq(s, i, i)

\* ([A-Za-z0-9][-A-Za-z0-9_.]*)?[A-Za-z0-9], at most 63 characters
IsLabelName(s) ==
    /\ Len(s) \in 1..63
    /\ CharAt(s, 1) \in AlphaNum
    /\ CharAt(s, Len(s)) \in AlphaNum
    /\ \A i \in 1..Len(s) : CharAt(s, i) \in AlphaNum \cup {"-", "_", "."}

\* validation.IsValidLabelValue: empty, or as a label name
IsValidLabelValue(v) == v = "" \/ IsLabelName(v)

\* validation.IsDNS1123Subdomain: lower-case labels joined by dots, at most
\* 253 characters
IsDNS1123Subdomain(s) ==
    /\ Len(s) \in 1..253
    /\ CharAt(s, 1) \in LowerCase \cup Digits
    /\ CharAt(s, Len(s)) \in LowerCase \cup Digits
    /\ \A i \in 1..Len(s) :
          /\ CharAt(s, i) \in LowerCase \cup Digits \cup {"-", "."}
          /\ CharAt(s, i) = "." =>
                /\ CharAt(s, i - 1) \in LowerCase \cup Digits
                /\ CharAt(s, i + 1) \in LowerCase \cup Digits

\* validation.IsQualifiedName: a label name, with an optional DNS subdomain
\* prefix and a slash before it
IsQualifiedName(k) ==
    LET slashes == {i \in 1..Len(k) : CharAt(k, i) = "/"} IN
        IF slashes = {} THEN IsLabelName(k)
        ELSE /\ Cardinality(slashes) = 1
             /\ LET i == CHOOSE j \in slashes : TRUE IN
                    /\ IsDNS1123Subdomain(SubSeq(k, 1, i - 1))
                    /\ IsLabelName(SubSeq(k, i + 1, Len(k)))

\* labels.NewRequirement fails: the key is no qualified name, the operator
\* is unknown or does not go with the number of values, or a value is no
\* label value
RequirementInvalid(key, operator, values) ==
    \/ ~ IsQualifiedName(key)
    \/ operator \notin ValidOperators
    \/ operator \in {"In", "NotIn"} /\ values = {}
    \/ operator \in {"Exists", "DoesNotExist"} /\ values # {}
    \/ \E v \in values : ~ IsValidLabelValue(v)

\* metav1.LabelSelectorAsSelector fails: a match label (an In requirement
\* with one value) or an expression makes no requirement
SelectorInvalid(ls) ==
    \/ \E kv \in ls.matchLabels : RequirementInvalid(kv[1], "In", {kv[2]})
    \/ \E i \in DOMAIN ls.matchExpressions :
          LET e == ls.matchExpressions[i] IN RequirementInvalid(e.key, e.operator, e.values)

ExprMatches(e, labels) ==
    CASE e.operator = "In" -> \E v \in e.values : <<e.key, v>> \in labels
      [] e.operator = "NotIn" -> ~ \E v \in e.values : <<e.key, v>> \in labels
      [] e.operator = "Exists" -> \E kv \in labels : kv[1] = e.key
      [] e.operator = "DoesNotExist" -> ~ \E kv \in labels : kv[1] = e.key
      [] OTHER -> FALSE

\* the selector LabelSelectorAsSelector builds: with no label and no
\* expression it is labels.Everything()
SelectorMatches(ls, labels) ==
    /\ ls.matchLabels \subseteq labels
    /\ \A i \in DOMAIN ls.matchExpressions : ExprMatches(ls.matchExpressions[i], labels)

\* the orders in which a List can return the objects named in S: the cache
\* the client reads from keeps no order
RECURSIVE Orders(_)
Orders(S) ==
    IF S = {} THEN {<<>>}
    ELSE UNION {{<<x>> \o t : t \in Orders(S \ {x})} : x \in S}

\* a List of namespaces that does not apply the selector
ListNamespacesAll(ls, nss, order) == order

\* client.List of namespaces under a label selector, the namespaces of the
\* store coming in the order given
ListNamespaces(ls, nss, order) ==
    SelectSeq(order, LAMBDA n : SelectorMatches(ls, nss[n].labels))

\* what one client.List of namespaces can answer: an error, or the selected
\* names in some order
ListAnswers(ls, nss) ==
    {[err |-> TRUE, ns |-> <<>>]}
    \cup {[err |-> FALSE, ns |-> ListNamespaces(ls, nss, order)] : order \in Orders(DOMAIN nss)}

\* Parser.retrieveNamespaces.  answers: what the List calls of the expansion
\* have answered so far; calls: how many List calls the expansion made before
\* this one.  pending: the invocation is at a List call that has no answer
\* yet.
retrieveNamespaces(ls, answers, calls) ==
    IF Len(ls.matchExpressions) > 0 \/ ls.hasMatchLabels
    THEN IF SelectorInvalid(ls)
         THEN [ns |-> <<>>, err |-> TRUE, listed |-> FALSE, pending |-> FALSE]
         ELSE IF calls >= Len(answers)
              THEN [ns |-> <<>>, err |-> FALSE, listed |-> FALSE, pending |-> TRUE]
              ELSE [ns |-> answers[calls + 1].ns, err |-> answers[calls + 1].err,
                    listed |-> TRUE, pending |-> FALSE]
    ELSE [ns |-> <<>>, err |-> FALSE, listed |-> FALSE, pending |-> FALSE]

(***************************************************************************)
(* Binding Expander (Parser).  The expansion is computed from the answers  *)
(* of its List calls: with too few answers it stops at the List call that  *)
(* comes next (pending) and tells the selector of that call; calls counts  *)
(* the List calls answered.                                                *)
(***************************************************************************)
\* utils.GenerateName: a deterministic function of its four arguments
GenerateName(ruleName, bindingName, kind, roleName) ==
    ruleName \o "-" \o bindingName \o "-" \o kind \o "-" \o roleName

SASubjects(name, ns) ==
    [i \in 1..Len(ns) |->
        [apiGroup |-> "", kind |-> ServiceAccount, name |-> name, namespace |-> ns[i]]]

RECURSIVE parseSubjectsFrom(_, _, _, _, _)
parseSubjectsFrom(subjects, i, acc, calls, answers) ==
    IF i > Len(subjects)
    THEN [Subjects |-> acc, calls |-> calls, err |-> FALSE, pending |-> FALSE,
          selector |-> NoSelector]
    ELSE LET s == subjects[i] IN
         IF s.kind = User \/ s.kind = Group
         THEN parseSubjectsFrom(subjects, i + 1,
                  Append(acc, [apiGroup |-> RBACApiGroup, kind |-> s.kind,
                               name |-> s.name, namespace |-> ""]),
                  calls, answers)
         ELSE IF s.kind = ServiceAccount
         THEN LET r == retrieveNamespaces(s.nameSpaceSelector, answers, calls)
                  ns == r.ns \o s.namespaces
                  c2 == IF r.listed THEN calls + 1 ELSE calls
              IN  IF r.pending
                  THEN [Subjects |-> acc, calls |-> calls, err |-> FALSE, pending |-> TRUE,
                        selector |-> s.nameSpaceSelector]
                  ELSE IF r.err
                  THEN [Subjects |-> acc, calls |-> c2, err |-> TRUE, pending |-> FALSE,
                        selector |-> NoSelector]
                  ELSE parseSubjectsFrom(subjects, i + 1, acc \o SASubjects(s.name, ns),
                                         c2, answers)
         ELSE parseSubjectsFrom(subjects, i + 1, acc, calls, answers)

parseSubjects(subjects, answers) == parseSubjectsFrom(subjects, 1, <<>>, 0, answers)

parseCRBs(RBACRuleName, BindingName, CRBs, RBACLabels, ownerRef, Subjects) ==
    [i \in 1..Len(CRBs) |->
        [name |-> GenerateName(RBACRuleName, BindingName, CRB, CRBs[i].clusterRole),
         labels |-> RBACLabels,
         owner |-> ownerRef,
         subjects |-> Subjects,
         roleRef |-> [apiGroup |-> RBACApiGroup, kind |-> CRB, name |-> CRBs[i].clusterRole]]]

RoleBindingsIn(ns, name, RBACLabels, ownerRef, Subjects, kind, roleName) ==
    [i \in 1..Len(ns) |->
        [name |-> name,
         namespace |-> ns[i],
         labels |-> RBACLabels,
         owner |-> ownerRef,
         subjects |-> Subjects,
         roleRef |-> [apiGroup |-> RBACApiGroup, kind |-> kind, name |-> roleName]]]

RECURSIVE parseRBsFrom(_, _, _, _, _, _, _, _, _, _)
parseRBsFrom(RBACRuleName, BindingName, RBs, i, acc, calls, RBACLabels, ownerRef, Subjects, answers) ==
    IF i > Len(RBs)
    THEN [RoleBindings |-> acc, calls |-> calls, err |-> FALSE, pending |-> FALSE,
          selector |-> NoSelector]
    ELSE LET rb == RBs[i]
             r == retrieveNamespaces(rb.nameSpaceSelector, answers, calls)
             ns == r.ns \o rb.namespaces
             c2 == IF r.listed THEN calls + 1 ELSE calls
             fromClusterRole ==
                 IF rb.clusterRole # ""
                 THEN RoleBindingsIn(ns, GenerateName(RBACRuleName, BindingName, RB, rb.clusterRole),
                                     RBACLabels, ownerRef, Subjects, CRB, rb.clusterRole)
                 ELSE <<>>
             fromRole ==
                 IF rb.role # ""
                 THEN RoleBindingsIn(ns, GenerateName(RBACRuleName, BindingName, RB, rb.role),
                                     RBACLabels, ownerRef, Subjects, RB, rb.role)
                 ELSE <<>>
         IN  IF r.pending
             THEN [RoleBindings |-> acc, calls |-> calls, err |-> FALSE, pending |-> TRUE,
                   selector |-> rb.nameSpaceSelector]
             ELSE IF r.err
             THEN [RoleBindings |-> acc, calls |-> c2, err |-> TRUE, pending |-> FALSE,
                   selector |-> NoSelector]
             ELSE parseRBsFrom(RBACRuleName, BindingName, RBs, i + 1,
                               acc \o fromClusterRole \o fromRole, c2,
                               RBACLabels, ownerRef, Subjects, answers)

parseRBs(RBACRuleName, BindingName, RBs, RBACLabels, ownerRef, Subjects, calls, answers) ==
    parseRBsFrom(RBACRuleName, BindingName, RBs, 1, <<>>, calls, RBACLabels, ownerRef, Subjects,
                 answers)

\* Parser.Parse on a fresh Parser, as far as the answers of its List calls
\* take it: the parser's fields, whether it returned an error, or the List
\* call it waits for.  On an error the fields keep what was appended before
\* it.
Parse(binding, RBACLabels, ownerRef, RBACRuleName, answers) ==
    LET sub == IF Len(binding.subjects) > 0
               THEN parseSubjects(binding.subjects, answers)
               ELSE [Subjects |-> <<>>, calls |-> 0, err |-> FALSE, pending |-> FALSE,
                     selector |-> NoSelector]
        crbs == IF Len(binding.clusterRoleBindings) > 0
                THEN parseCRBs(RBACRuleName, binding.name, binding.clusterRoleBindings,
                               RBACLabels, ownerRef, sub.Subjects)
                ELSE <<>>
        rbs == IF Len(binding.roleBindings) > 0
               THEN parseRBs(RBACRuleName, binding.name, binding.roleBindings,
                             RBACLabels, ownerRef, sub.Subjects, sub.calls, answers)
               ELSE [RoleBindings |-> <<>>, calls |-> sub.calls, err |-> FALSE,
                     pending |-> FALSE, selector |-> NoSelector]
    IN  IF sub.err \/ sub.pending
        THEN [Subjects |-> sub.Subjects, ClusterRoleBindings |-> <<>>,
              RoleBindings |-> <<>>, err |-> sub.err, calls |-> sub.calls,
              pending |-> sub.pending, selector |-> sub.selector, answers |-> answers]
        ELSE [Subjects |-> sub.Subjects, ClusterRoleBindings |-> crbs,
              RoleBindings |-> rbs.RoleBindings, err |-> rbs.err, calls |-> rbs.calls,
              pending |-> rbs.pending, selector |-> rbs.selector, answers |-> answers]

\* the parser after the next List call of the expansion has been answered in
\* the store nss, or the finished parser when no List call is left
ParseSteps(binding, RBACLabels, ownerRef, RBACRuleName, answers, nss) ==
    LET p == Parse(binding, RBACLabels, ownerRef, RBACRuleName, answers) IN
        IF p.pending
        THEN {Parse(binding, RBACLabels, ownerRef, RBACRuleName, Append(answers, a)) :
                 a \in ListAnswers(p.selector, nss)}
        ELSE {p}

\* the parsers a Parse can end with when every List call goes through in the
\* store nss
RECURSIVE ParsesFrom(_, _, _, _, _, _)
ParsesFrom(binding, RBACLabels, ownerRef, RBACRuleName, answers, nss) ==
    LET p == Parse(binding, RBACLabels, ownerRef, RBACRuleName, answers) IN
        IF p.pending
        THEN UNION {ParsesFrom(binding, RBACLabels, ownerRef, RBACRuleName, Append(answers, a), nss) :
                       a \in {x \in ListAnswers(p.selector, nss) : ~ x.err}}
        ELSE {p}

Parses(binding, RBACLabels, ownerRef, RBACRuleName, nss) ==
    ParsesFrom(binding, RBACLabels, ownerRef, RBACRuleName, <<>>, nss)

(***************************************************************************)
(* The RBACRule resources and the object store.                            *)
(***************************************************************************)
\* constants.RBACRuleLabel: the well-known ownership label key
RBACRuleLabel == "rbac-controller.io/rbacrule"

\* nameSpaceSelector: {matchLabels: {env: dev}}
DevSelector == [hasMatchLabels |-> TRUE, matchLabels |-> {<<"env", "dev">>},
                hasMatchExpressions |-> FALSE, matchExpressions |-> <<>>]

\* The rules of the model, by req.NamespacedName.  RBACRule is a
\* cluster-scoped resource: the namespace of a rule is empty.
RuleAB == [namespace |-> "", name |-> "a-b"]

RuleA == [namespace |-> "", name |-> "a"]

RuleKeys == {RuleAB, RuleA}

NoOwner == [namespace |-> "", name |-> ""]

\* spec.bindings of the two rules
BindingsAB ==
    << [name |-> "b1",
        subjects |-> << [kind |-> ServiceAccount, name |-> "sa", namespaces |-> <<"n1">>,
                         nameSpaceSelector |-> NoSelector,
                         namespaceMatchExpression |-> ""],
                        [kind |-> User, name |-> "u", namespaces |-> <<>>,
                         nameSpaceSelector |-> NoSelector,
                         namespaceMatchExpression |-> ""] >>,
        roleBindings |-> << [role |-> "ro", clusterRole |-> "", namespaces |-> <<"n1">>,
                             nameSpaceSelector |-> NoSelector,
                             namespaceMatchExpression |-> ""] >>,
        clusterRoleBindings |-> << [clusterRole |-> "cr"] >>] >>

BindingsA ==
    << [name |-> "b1",
        subjects |-> << [kind |-> Group, name |-> "g", namespaces |-> <<>>,
                         nameSpaceSelector |-> NoSelector,
                         namespaceMatchExpression |-> ""] >>,
        roleBindings |-> << [role |-> "ro", clusterRole |-> "", namespaces |-> <<>>,
                             nameSpaceSelector |-> DevSelector,
                             namespaceMatchExpression |-> ""] >>,
        clusterRoleBindings |-> << [clusterRole |-> "cr"] >>] >>

\* spec.startTime and spec.endTime of the first rule; the second rule sets
\* neither (0: the zero time.Time{})
StartAB == 2

EndAB == 3

\* the namespaces of the cluster at the start: default, and n2 with the
\* label env=dev
InitialNamespaces ==
    [n \in {"default", "n2"} |->
        [labels |-> IF n = "n2" THEN {<<"env", "dev">>} ELSE {}, owner |-> NoOwner]]

\* the store's record of a rule that does not exist
AbsentRule ==
    [exists |-> FALSE, finalizers |-> <<>>, deleting |-> FALSE,
     startTime |-> 0, endTime |-> 0, bindings |-> <<>>,
     statusRoleBindings |-> <<>>, statusClusterRoleBindings |-> <<>>]

NewRule(bindings, start, end) ==
    [AbsentRule EXCEPT !.exists = TRUE, !.bindings = bindings,
                       !.startTime = start, !.endTime = end]

\* controllerutil.ContainsFinalizer / AddFinalizer / RemoveFinalizer
ContainsFinalizer(o, f) == f \in Range(o.finalizers)

AddFinalizer(o, f) ==
    IF f \in Range(o.finalizers) THEN o
    ELSE [o EXCEPT !.finalizers = Append(@, f)]

RemoveFinalizer(o, f) ==
    [o EXCEPT !.finalizers = SelectSeq(@, LAMBDA x : x # f)]

\* identifiers of generated objects
Key(ns, name) == ns \o "/" \o name

VARIABLES
    now,                  \* the clock
    rules,                \* RBACRule resources, by key
    namespaces,           \* Namespace objects, by name
    serviceAccounts,      \* ServiceAccount objects, by namespace/name
    roleBindings,         \* RoleBinding objects, by namespace/name
    clusterRoleBindings,  \* ClusterRoleBinding objects, by name
    pc,                   \* position of each rule's reconciliation pass
    obj,                  \* the pass's in-memory copy of the RBACRule
    stale,                \* the copy's resourceVersion is behind the store's
    bidx,                 \* index of the binding being processed
    parser,               \* the Parser of the binding being processed
    cursor,               \* index in the loop being run
    items,                \* what is left of the list a sweep loop ranges over
    item,                 \* the object of that list the sweep loop is at
    result,               \* what the last pass returned
    passLog,              \* what the current (or last) pass wrote and deleted and
                          \* the Parse errors it logged, as <<kind, key>>
    attached              \* the finalizer was attached to the rule at some time

storeVars == <<namespaces, serviceAccounts, roleBindings, clusterRoleBindings>>

localVars == <<obj, stale, bidx, parser, cursor, items, item>>

vars == <<now, rules, namespaces, serviceAccounts, roleBindings, clusterRoleBindings,
          pc, obj, stale, bidx, parser, cursor, items, item, result, passLog, attached>>

\* the sweep is at no object
NoItem == [key |-> "", name |-> ""]

\* a fresh Parser
NoParser == [Subjects |-> <<>>, ClusterRoleBindings |-> <<>>, RoleBindings |-> <<>>,
             err |-> FALSE, calls |-> 0, pending |-> FALSE, selector |-> NoSelector,
             answers |-> <<>>]

\* ctrl.Result and the error a pass returns; exit names the return statement
Result(ticks, ms, err, exit) ==
    [requeueTicks |-> ticks, requeueMs |-> ms, err |-> err, exit |-> exit]

NoResult == Result(0, 0, "", "none")

Init ==
    /\ now = 1
    /\ rules = [r \in RuleKeys |->
                    IF r = RuleAB THEN NewRule(BindingsAB, StartAB, EndAB)
                    ELSE NewRule(BindingsA, 0, 0)]
    /\ namespaces = InitialNamespaces
    /\ serviceAccounts = EmptyMap
    /\ roleBindings = EmptyMap
    /\ clusterRoleBindings = EmptyMap
    /\ pc = [r \in RuleKeys |-> "idle"]
    /\ obj = [r \in RuleKeys |-> AbsentRule]
    /\ stale = [r \in RuleKeys |-> FALSE]
    /\ bidx = [r \in RuleKeys |-> 0]
    /\ parser = [r \in RuleKeys |-> NoParser]
    /\ cursor = [r \in RuleKeys |-> 0]
    /\ items = [r \in RuleKeys |-> {}]
    /\ item = [r \in RuleKeys |-> NoItem]
    /\ result = [r \in RuleKeys |-> NoResult]
    /\ passLog = [r \in RuleKeys |-> {}]
    /\ attached = [r \in RuleKeys |-> FALSE]

(***************************************************************************)
(* The object store's handling of RBACRule writes.                         *)
(***************************************************************************)
\* a write of rule r with the pass's copy is accepted: the rule exists and
\* the copy's resourceVersion is current (else NotFound or Conflict)
CanWrite(r) == rules[r].exists /\ ~ stale[r]

\* webhook: DEFAULT_NAMESPACE
DEFAULT_NAMESPACE == "default"

\* reflect.ValueOf(ls).IsZero(): the MatchLabels map is nil and the
\* MatchExpressions slice is nil
IsZeroSelector(ls) == ~ ls.hasMatchLabels /\ ~ ls.hasMatchExpressions

\* webhook: a ServiceAccount subject that selects no namespace in any way
\* gets the default namespace
defaultSubjectsNs(subjs) ==
    [i \in 1..Len(subjs) |->
        IF /\ subjs[i].kind = ServiceAccount
           /\ Len(subjs[i].namespaces) = 0
           /\ Len(subjs[i].namespaceMatchExpression) = 0
           /\ IsZeroSelector(subjs[i].nameSpaceSelector)
        THEN [subjs[i] EXCEPT !.namespaces = << DEFAULT_NAMESPACE >>]
        ELSE subjs[i]]

\* webhook: a RoleBindingSpec with a role that selects no namespace in any
\* way gets the default namespace
defaultRolesNS(rbs) ==
    [i \in 1..Len(rbs) |->
        IF /\ rbs[i].role # ""
           /\ Len(rbs[i].namespaces) = 0
           /\ Len(rbs[i].namespaceMatchExpression) = 0
           /\ IsZeroSelector(rbs[i].nameSpaceSelector)
        THEN [rbs[i] EXCEPT !.namespaces = << DEFAULT_NAMESPACE >>]
        ELSE rbs[i]]

\* RBACRuleCustomDefaulter.Default, on spec.bindings: the mutating webhook
\* of create and update requests
Default(bindings) ==
    [i \in 1..Len(bindings) |->
        [bindings[i] EXCEPT !.subjects = defaultSubjectsNs(@),
                            !.roleBindings = defaultRolesNS(@)]]

\* the JSON form of a LabelSelector in a request of the controller: an
\* empty matchLabels map and an empty matchExpressions list are left out
\* (omitempty), and whoever decodes the request finds them nil
OmitEmptySelector(ls) ==
    [ls EXCEPT !.hasMatchLabels = @ /\ ls.matchLabels # {},
               !.hasMatchExpressions = @ /\ Len(ls.matchExpressions) > 0]

\* the JSON form of a list of subjects or RoleBindingSpecs
OmitEmptyIn(l) ==
    [j \in 1..Len(l) |->
        [l[j] EXCEPT !.nameSpaceSelector = OmitEmptySelector(l[j].nameSpaceSelector)]]

\* the JSON form of spec.bindings in a request of the controller
OmitEmpty(bindings) ==
    [i \in 1..Len(bindings) |->
        [bindings[i] EXCEPT !.subjects = OmitEmptyIn(bindings[i].subjects),
                            !.roleBindings = OmitEmptyIn(bindings[i].roleBindings)]]

\* the stored rule after client.Update with copy o: the request carries
\* the JSON form of o and passes the mutating webhook (verbs create and
\* update, registered unless ENABLE_WEBHOOK is "false"); metadata and spec
\* are taken from the outcome, status is kept (status is a subresource); a
\* rule under deletion whose last finalizer goes is removed
UpdateRule(r, o) ==
    LET n == [rules[r] EXCEPT !.finalizers = o.finalizers,
                              !.bindings = Default(OmitEmpty(o.bindings)),
                              !.startTime = o.startTime, !.endTime = o.endTime]
    IN  IF n.deleting /\ n.finalizers = <<>> THEN AbsentRule ELSE n

\* the stored rule after client.Status().Update with copy o
UpdateStatus(r, o) ==
    [rules[r] EXCEPT !.statusRoleBindings = o.statusRoleBindings,
                     !.statusClusterRoleBindings = o.statusClusterRoleBindings]

(***************************************************************************)
(* The response of Update and Status().Update is decoded into the object   *)
(* the pass holds.  The response is the JSON form of the stored rule; the  *)
(* decoder writes the fields whose keys are present and leaves the others  *)
(* as the copy has them; a list is as long as the response's, each element *)
(* decoded into the copy's element at the same index where there is one.   *)
(* c is the copy's value, s the stored one.                                *)
(***************************************************************************)
\* a list under omitempty, a string under omitempty
DecodeOmitted(c, s) == IF Len(s) = 0 THEN c ELSE s

\* a LabelSelectorRequirement: values is under omitempty
DecodeRequirement(c, s) ==
    [s EXCEPT !.values = IF s.values = {} THEN c.values ELSE s.values]

\* a LabelSelector: a matchLabels map that is present is decoded into the
\* map of the copy, key by key; one that is absent leaves the copy's map,
\* an empty non-nil map included
DecodeSelector(c, s) ==
    [hasMatchLabels |-> c.hasMatchLabels \/ s.hasMatchLabels,
     matchLabels |->
         IF s.hasMatchLabels
         THEN s.matchLabels \cup
              {l \in c.matchLabels : \A m \in s.matchLabels : m[1] # l[1]}
         ELSE c.matchLabels,
     hasMatchExpressions |-> c.hasMatchExpressions \/ s.hasMatchExpressions,
     matchExpressions |->
         IF Len(s.matchExpressions) = 0 THEN c.matchExpressions
         ELSE [i \in 1..Len(s.matchExpressions) |->
                  IF i <= Len(c.matchExpressions) THEN DecodeRequirement(c.matchExpressions[i], s.matchExpressions[i])
                  ELSE s.matchExpressions[i]]]

DecodeSubject(c, s) ==
    [kind |-> s.kind, name |-> s.name,
     namespaces |-> DecodeOmitted(c.namespaces, s.namespaces),
     nameSpaceSelector |-> DecodeSelector(c.nameSpaceSelector, s.nameSpaceSelector),
     namespaceMatchExpression |->
         DecodeOmitted(c.namespaceMatchExpression, s.namespaceMatchExpression)]

DecodeRoleBinding(c, s) ==
    [role |-> DecodeOmitted(c.role, s.role),
     clusterRole |-> DecodeOmitted(c.clusterRole, s.clusterRole),
     namespaces |-> DecodeOmitted(c.namespaces, s.namespaces),
     nameSpaceSelector |-> DecodeSelector(c.nameSpaceSelector, s.nameSpaceSelector),
     namespaceMatchExpression |->
         DecodeOmitted(c.namespaceMatchExpression, s.namespaceMatchExpression)]

DecodeBinding(c, s) ==
    [name |-> s.name,
     subjects |-> [i \in 1..Len(s.subjects) |->
                  IF i <= Len(c.subjects) THEN DecodeSubject(c.subjects[i], s.subjects[i])
                  ELSE s.subjects[i]],
     roleBindings |->
         IF Len(s.roleBindings) = 0 THEN c.roleBindings
         ELSE [i \in 1..Len(s.roleBindings) |->
                  IF i <= Len(c.roleBindings) THEN DecodeRoleBinding(c.roleBindings[i], s.roleBindings[i])
                  ELSE s.roleBindings[i]],
     clusterRoleBindings |-> DecodeOmitted(c.clusterRoleBindings, s.clusterRoleBindings)]

\* the copy c of the pass after the response s was decoded into it
DecodeInto(c, s) ==
    [exists |-> s.exists,
     finalizers |-> DecodeOmitted(c.finalizers, s.finalizers),
     deleting |-> c.deleting \/ s.deleting,
     startTime |-> IF s.startTime = 0 THEN c.startTime ELSE s.startTime,
     endTime |-> IF s.endTime = 0 THEN c.endTime ELSE s.endTime,
     bindings |-> [i \in 1..Len(s.bindings) |->
                  IF i <= Len(c.bindings) THEN DecodeBinding(c.bindings[i], s.bindings[i])
                  ELSE s.bindings[i]],
     statusRoleBindings |-> DecodeOmitted(c.statusRoleBindings, s.statusRoleBindings),
     statusClusterRoleBindings |->
         DecodeOmitted(c.statusClusterRoleBindings, s.statusClusterRoleBindings)]

\* the stored rule after client.Delete: a rule holding a finalizer is only
\* marked with a deletion timestamp
DeleteRule(rec) ==
    IF rec.finalizers = <<>> THEN AbsentRule ELSE [rec EXCEPT !.deleting = TRUE]

(***************************************************************************)
(* Reconcile: values computed from the fetched rule.                       *)
(***************************************************************************)
\* Reconcile: RBAClabels and ownerRef, built once per pass
RBAClabels(r) == {<<RBACRuleLabel, r.name>>}

ownerRef(r) == r

\* reconcileDelete: the label selector of the sweep,
\* strings.Join([]string{Name, Namespace}, "-")
SweepSelector(r) == {<<RBACRuleLabel, r.name \o "-" \o r.namespace>>}

Pos(p, b, c) == [pc |-> p, bidx |-> b, cursor |-> c]

\* deleteBindings: after the RoleBinding loop
AfterRBSweep(o) ==
    IF Len(o.statusClusterRoleBindings) > 0 THEN "listCRB" ELSE "listSA"

\* reconcileDelete: where the sweep starts
SweepEntry(o) ==
    IF ContainsFinalizer(o, RBACRuleFinalizer)
    THEN IF Len(o.statusRoleBindings) > 0 THEN "listRB" ELSE AfterRBSweep(o)
    ELSE "removeFinalizer"

\* a pass that goes to the startTime check without the deletion check
AfterFinalizerToGate(o) == "gate"

\* Reconcile: the deletion check that follows the finalizer block
AfterFinalizer(o) == IF o.deleting THEN SweepEntry(o) ELSE "gate"

\* Reconcile: the finalizer block's condition
NeedsFinalizer(o) == ~ o.deleting /\ ~ ContainsFinalizer(o, RBACRuleFinalizer)

\* a binding loop that steps over every other binding
NextBindingSkipping(bi, n) ==
    IF bi + 1 < n THEN Pos("parse", bi + 2, 0) ELSE Pos("end", 0, 0)

\* Reconcile: the loops over the bindings and over one binding's parser
\* output: subjects, then ClusterRoleBindings, then RoleBindings
NextBinding(bi, n) == IF bi < n THEN Pos("parse", bi + 1, 0) ELSE Pos("end", 0, 0)

FromRBs(p, i, bi, n) ==
    IF i <= Len(p.RoleBindings) THEN Pos("rbCreate", bi, i) ELSE NextBinding(bi, n)

FromCRBs(p, i, bi, n) ==
    IF i <= Len(p.ClusterRoleBindings) THEN Pos("crbCreate", bi, i) ELSE FromRBs(p, 1, bi, n)

RECURSIVE NextSA(_, _)
NextSA(subjects, i) ==
    IF i > Len(subjects) THEN 0
    ELSE IF subjects[i].kind = ServiceAccount THEN i
    ELSE NextSA(subjects, i + 1)

FromSubjects(p, i, bi, n) ==
    LET j == NextSA(p.Subjects, i)
    IN  IF j # 0 THEN Pos("nsGet", bi, j) ELSE FromCRBs(p, 1, bi, n)

(***************************************************************************)
(* Steps of a pass.                                                        *)
(***************************************************************************)
Move(r, npc, nobj, nb, np, nc, ni) ==
    /\ pc' = [pc EXCEPT ![r] = npc]
    /\ obj' = [obj EXCEPT ![r] = nobj]
    /\ bidx' = [bidx EXCEPT ![r] = nb]
    /\ parser' = [parser EXCEPT ![r] = np]
    /\ cursor' = [cursor EXCEPT ![r] = nc]
    /\ items' = [items EXCEPT ![r] = ni]
    /\ item' = [item EXCEPT ![r] = NoItem]
    /\ UNCHANGED <<now, stale, result>>

\* continue the pass at position pos with copy o
Goto(r, pos, o) ==
    Move(r, pos.pc, o, pos.bidx,
         IF pos.pc \in {"parse", "end"} THEN NoParser ELSE parser[r], pos.cursor, {})

\* stay in the current loop iteration, at another call of it
Stay(r, npc) == Move(r, npc, obj[r], bidx[r], parser[r], cursor[r], items[r])

\* the pass returns res
Finish(r, res) ==
    /\ pc' = [pc EXCEPT ![r] = "idle"]
    /\ obj' = [obj EXCEPT ![r] = AbsentRule]
    /\ stale' = [stale EXCEPT ![r] = FALSE]
    /\ bidx' = [bidx EXCEPT ![r] = 0]
    /\ parser' = [parser EXCEPT ![r] = NoParser]
    /\ cursor' = [cursor EXCEPT ![r] = 0]
    /\ items' = [items EXCEPT ![r] = {}]
    /\ item' = [item EXCEPT ![r] = NoItem]
    /\ result' = [result EXCEPT ![r] = res]
    /\ UNCHANGED now

Wrote(r, kind, key) == passLog' = [passLog EXCEPT ![r] = @ \cup {<<kind, key>>}]

\* Reconcile: r.Get of the rule
Fetch(r) ==
    /\ pc[r] = "idle"
    /\ \E ok \in BOOLEAN :
          IF ~ ok
          THEN /\ Finish(r, Result(0, 0, "error", "get"))
          ELSE IF ~ rules[r].exists
          THEN /\ Finish(r, Result(0, 0, "", "notFound"))
          ELSE LET o == rules[r] IN
               /\ pc' = [pc EXCEPT ![r] =
                            IF NeedsFinalizer(o) THEN "addFinalizer" ELSE AfterFinalizer(o)]
               /\ obj' = [obj EXCEPT ![r] = o]
               /\ stale' = [stale EXCEPT ![r] = FALSE]
               /\ result' = [result EXCEPT ![r] = NoResult]
               /\ UNCHANGED <<now, bidx, parser, cursor, items, item>>
    /\ passLog' = [passLog EXCEPT ![r] = {}]
    /\ UNCHANGED <<rules, storeVars, attached>>

\* a pass that goes on after a failed update of the finalizer
AttachFinalizerIgnoringError(r) ==
    /\ pc[r] = "addFinalizer"
    /\ \E ok \in BOOLEAN :
          IF ok /\ CanWrite(r)
          THEN LET o == AddFinalizer(obj[r], RBACRuleFinalizer)
                   n == UpdateRule(r, o)
                   m == DecodeInto(o, n)
               IN
               /\ rules' = [rules EXCEPT ![r] = n]
               /\ Move(r, AfterFinalizer(m), m, 0, NoParser, 0, {})
               /\ attached' = [attached EXCEPT ![r] = TRUE]
          ELSE /\ Move(r, AfterFinalizer(obj[r]), obj[r], 0, NoParser, 0, {})
               /\ UNCHANGED <<rules, attached>>
    /\ UNCHANGED <<storeVars, passLog>>

\* Reconcile: AddFinalizer and r.Update
AttachFinalizer(r) ==
    /\ pc[r] = "addFinalizer"
    /\ \E ok \in BOOLEAN :
          IF ok /\ CanWrite(r)
          THEN LET o == AddFinalizer(obj[r], RBACRuleFinalizer)
                   n == UpdateRule(r, o)
                   m == DecodeInto(o, n)
               IN
               /\ rules' = [rules EXCEPT ![r] = n]
               /\ Move(r, AfterFinalizer(m), m, 0, NoParser, 0, {})
               /\ attached' = [attached EXCEPT ![r] = TRUE]
          ELSE /\ Finish(r, Result(0, 0, "error", "addFinalizer"))
               /\ UNCHANGED <<rules, attached>>
    /\ UNCHANGED <<storeVars, passLog>>

\* a pass that applies the bindings whatever startTime is
GateIgnoringStart(r) ==
    /\ pc[r] = "gate"
    /\ Goto(r, NextBinding(0, Len(obj[r].bindings)), obj[r])
    /\ UNCHANGED <<rules, storeVars, passLog, attached>>

\* Reconcile: the startTime check and the entry of the binding loop
Gate(r) ==
    /\ pc[r] = "gate"
    /\ LET start == obj[r].startTime IN
          IF start # 0 /\ start > now
          THEN Finish(r, Result(start - now, 0, "", "pending"))
          ELSE Goto(r, NextBinding(0, Len(obj[r].bindings)), obj[r])
    /\ UNCHANGED <<rules, storeVars, passLog, attached>>

\* the Parse of the binding the pass of rule r is at, after its next List
\* call (or at its end, when it makes none)
ParseNext(r) ==
    ParseSteps(obj[r].bindings[bidx[r]], RBAClabels(r), ownerRef(r), r.name,
               parser[r].answers, namespaces)

\* a pass that returns the Parse error instead of logging it
ParseBindingAborting(r) ==
    /\ pc[r] = "parse"
    /\ \E p \in ParseNext(r) :
          LET pos == FromSubjects(p, 1, bidx[r], Len(obj[r].bindings)) IN
              IF p.pending
              THEN /\ Move(r, "parse", obj[r], bidx[r], p, 0, {})
                   /\ UNCHANGED passLog
              ELSE IF p.err
              THEN /\ Finish(r, Result(0, 0, "error", "parse"))
                   /\ Wrote(r, "parseError", obj[r].bindings[bidx[r]].name)
              ELSE /\ Move(r, pos.pc, obj[r], pos.bidx,
                           IF pos.pc \in {"parse", "end"} THEN NoParser ELSE p,
                           pos.cursor, {})
                   /\ UNCHANGED passLog
    /\ UNCHANGED <<rules, storeVars, attached>>

\* Reconcile: p.Parse of the current binding, one List call of it at a time
\* (a Parse without List call is one step); a Parse error is logged and the
\* pass goes on with what the parser holds
ParseBinding(r) ==
    /\ pc[r] = "parse"
    /\ \E p \in ParseNext(r) :
          LET pos == FromSubjects(p, 1, bidx[r], Len(obj[r].bindings)) IN
              IF p.pending
              THEN /\ Move(r, "parse", obj[r], bidx[r], p, 0, {})
                   /\ UNCHANGED passLog
              ELSE /\ Move(r, pos.pc, obj[r], pos.bidx,
                           IF pos.pc \in {"parse", "end"} THEN NoParser ELSE p,
                           pos.cursor, {})
                   /\ IF p.err
                      THEN Wrote(r, "parseError", obj[r].bindings[bidx[r]].name)
                      ELSE UNCHANGED passLog
    /\ UNCHANGED <<rules, storeVars, attached>>

\* what a failed object mutation returns: a fixed-delay retry
Retry(err, exit) == Result(0, RetryDelayMs, err, exit)

CurSubject(r) == parser[r].Subjects[cursor[r]]

CurCRB(r) == parser[r].ClusterRoleBindings[cursor[r]]

CurRB(r) == parser[r].RoleBindings[cursor[r]]

\* checkNamespace: r.Get of the namespace of a ServiceAccount subject
CheckNamespaceGet(r) ==
    /\ pc[r] = "nsGet"
    /\ \E ok \in BOOLEAN :
          IF ~ ok
          THEN Finish(r, Retry("", "checkNamespace"))
          ELSE Stay(r, IF CurSubject(r).namespace \in DOMAIN namespaces
                       THEN "saCreate" ELSE "nsCreate")
    /\ UNCHANGED <<rules, storeVars, passLog, attached>>

\* checkNamespace: r.Create of the missing namespace
CheckNamespaceCreate(r) ==
    /\ pc[r] = "nsCreate"
    /\ LET n == CurSubject(r).namespace IN
       \E ok \in BOOLEAN :
          IF ok /\ n \notin DOMAIN namespaces
          THEN /\ namespaces' = Put(namespaces, n, [labels |-> {}, owner |-> ownerRef(r)])
               /\ Stay(r, "saCreate")
               /\ Wrote(r, "ns", n)
          ELSE /\ Finish(r, Retry("", "checkNamespace"))
               /\ UNCHANGED <<namespaces, passLog>>
    /\ UNCHANGED <<rules, serviceAccounts, roleBindings, clusterRoleBindings, attached>>

\* createSA: the ServiceAccount built for the current subject
NewSA(r) ==
    [name |-> CurSubject(r).name, namespace |-> CurSubject(r).namespace,
     labels |-> RBAClabels(r), owner |-> ownerRef(r)]

AfterSA(r) == FromSubjects(parser[r], cursor[r] + 1, bidx[r], Len(obj[r].bindings))

\* createSA: r.Create
CreateSA(r) ==
    /\ pc[r] = "saCreate"
    /\ LET sa == NewSA(r)
           k == Key(sa.namespace, sa.name)
       IN  \E ok \in BOOLEAN :
              IF ok /\ k \in DOMAIN serviceAccounts
              THEN /\ Stay(r, "saUpdate")
                   /\ UNCHANGED <<serviceAccounts, passLog>>
              ELSE IF ok /\ sa.namespace \in DOMAIN namespaces
              THEN /\ serviceAccounts' = Put(serviceAccounts, k, sa)
                   /\ Goto(r, AfterSA(r), obj[r])
                   /\ Wrote(r, "sa", k)
              ELSE /\ Finish(r, Retry("", "createSA"))
                   /\ UNCHANGED <<serviceAccounts, passLog>>
    /\ UNCHANGED <<rules, namespaces, roleBindings, clusterRoleBindings, attached>>

\* createSA: r.Update after already-exists
UpdateSA(r) ==
    /\ pc[r] = "saUpdate"
    /\ LET sa == NewSA(r)
           k == Key(sa.namespace, sa.name)
       IN  \E ok \in BOOLEAN :
              IF ok /\ k \in DOMAIN serviceAccounts
              THEN /\ serviceAccounts' = Put(serviceAccounts, k, sa)
                   /\ Goto(r, AfterSA(r), obj[r])
                   /\ Wrote(r, "sa", k)
              ELSE /\ Finish(r, Retry("", "createSA"))
                   /\ UNCHANGED <<serviceAccounts, passLog>>
    /\ UNCHANGED <<rules, namespaces, roleBindings, clusterRoleBindings, attached>>

\* a pass that leaves the status write of ClusterRoleBindings out
AfterCRBNoRecord(r) == FromCRBs(parser[r], cursor[r] + 1, bidx[r], Len(obj[r].bindings))

\* a pass that appends the ClusterRoleBinding's name to status without
\* looking it up
AfterCRBAlwaysRecord(r) == Pos("crbStatus", bidx[r], cursor[r])

\* Reconcile: after createCRB succeeded, the status check
AfterCRB(r) ==
    IF Index(obj[r].statusClusterRoleBindings, CurCRB(r).name) = -1
    THEN Pos("crbStatus", bidx[r], cursor[r])
    ELSE FromCRBs(parser[r], cursor[r] + 1, bidx[r], Len(obj[r].bindings))

\* createCRB: r.Create
CreateCRB(r) ==
    /\ pc[r] = "crbCreate"
    /\ LET crb == CurCRB(r) IN
       \E ok \in BOOLEAN :
          IF ok /\ crb.name \in DOMAIN clusterRoleBindings
          THEN /\ Stay(r, "crbUpdate")
               /\ UNCHANGED <<clusterRoleBindings, passLog>>
          ELSE IF ok
          THEN /\ clusterRoleBindings' = Put(clusterRoleBindings, crb.name, crb)
               /\ Goto(r, AfterCRB(r), obj[r])
               /\ Wrote(r, "crb", crb.name)
          ELSE /\ Finish(r, Retry("", "createCRB"))
               /\ UNCHANGED <<clusterRoleBindings, passLog>>
    /\ UNCHANGED <<rules, namespaces, serviceAccounts, roleBindings, attached>>

\* a createCRB that takes already-exists for success and leaves the stored
\* object as it is
UpdateCRBKeeping(r) ==
    /\ pc[r] = "crbUpdate"
    /\ LET crb == CurCRB(r) IN
       \E ok \in BOOLEAN :
          IF ok /\ crb.name \in DOMAIN clusterRoleBindings
          THEN /\ Goto(r, AfterCRB(r), obj[r])
               /\ Wrote(r, "crb", crb.name)
          ELSE /\ Finish(r, Retry("", "createCRB"))
               /\ UNCHANGED passLog
    /\ UNCHANGED <<rules, storeVars, attached>>

\* a pass that takes a ClusterRoleBinding found by already-exists as recorded
\* and leaves the status check out after the update
UpdateCRBNoRecord(r) ==
    /\ pc[r] = "crbUpdate"
    /\ LET crb == CurCRB(r) IN
       \E ok \in BOOLEAN :
          IF ok /\ crb.name \in DOMAIN clusterRoleBindings
          THEN /\ clusterRoleBindings' = Put(clusterRoleBindings, crb.name, crb)
               /\ Goto(r, FromCRBs(parser[r], cursor[r] + 1, bidx[r], Len(obj[r].bindings)),
                       obj[r])
               /\ Wrote(r, "crb", crb.name)
          ELSE /\ Finish(r, Retry("", "createCRB"))
               /\ UNCHANGED <<clusterRoleBindings, passLog>>
    /\ UNCHANGED <<rules, namespaces, serviceAccounts, roleBindings, attached>>

\* createCRB: r.Update after already-exists
UpdateCRB(r) ==
    /\ pc[r] = "crbUpdate"
    /\ LET crb == CurCRB(r) IN
       \E ok \in BOOLEAN :
          IF ok /\ crb.name \in DOMAIN clusterRoleBindings
          THEN /\ clusterRoleBindings' = Put(clusterRoleBindings, crb.name, crb)
               /\ Goto(r, AfterCRB(r), obj[r])
               /\ Wrote(r, "crb", crb.name)
          ELSE /\ Finish(r, Retry("", "createCRB"))
               /\ UNCHANGED <<clusterRoleBindings, passLog>>
    /\ UNCHANGED <<rules, namespaces, serviceAccounts, roleBindings, attached>>

\* a pass that writes a status naming only the ClusterRoleBinding at hand
RecordCRBResetting(r) ==
    /\ pc[r] = "crbStatus"
    /\ LET o == [obj[r] EXCEPT !.statusClusterRoleBindings = << CurCRB(r).name >>] IN
       \E ok \in BOOLEAN :
          IF ok /\ CanWrite(r)
          THEN LET n == UpdateStatus(r, o)
                   m == DecodeInto(o, n)
               IN
               /\ rules' = [rules EXCEPT ![r] = n]
               /\ Goto(r, FromCRBs(parser[r], cursor[r] + 1, bidx[r], Len(m.bindings)), m)
               /\ Wrote(r, "statusCRB", CurCRB(r).name)
          ELSE /\ Finish(r, Result(0, 0, "error", "statusCRB"))
               /\ UNCHANGED <<rules, passLog>>
    /\ UNCHANGED <<storeVars, attached>>

\* Reconcile: append the ClusterRoleBinding's name to status and
\* r.Status().Update
RecordCRB(r) ==
    /\ pc[r] = "crbStatus"
    /\ LET o == [obj[r] EXCEPT !.statusClusterRoleBindings = Append(@, CurCRB(r).name)] IN
       \E ok \in BOOLEAN :
          IF ok /\ CanWrite(r)
          THEN LET n == UpdateStatus(r, o)
                   m == DecodeInto(o, n)
               IN
               /\ rules' = [rules EXCEPT ![r] = n]
               /\ Goto(r, FromCRBs(parser[r], cursor[r] + 1, bidx[r], Len(m.bindings)), m)
               /\ Wrote(r, "statusCRB", CurCRB(r).name)
          ELSE /\ Finish(r, Result(0, 0, "error", "statusCRB"))
               /\ UNCHANGED <<rules, passLog>>
    /\ UNCHANGED <<storeVars, attached>>

\* Reconcile: after createCR succeeded, the status check
AfterRB(r) ==
    IF Index(obj[r].statusRoleBindings, CurRB(r).namespace \o "/" \o CurRB(r).name) = -1
    THEN Pos("rbStatus", bidx[r], cursor[r])
    ELSE FromRBs(parser[r], cursor[r] + 1, bidx[r], Len(obj[r].bindings))

\* a createCR whose error the pass does not look at
CreateCRUnchecked(r) ==
    /\ pc[r] = "rbCreate"
    /\ LET rb == CurRB(r)
           k == Key(rb.namespace, rb.name)
       IN  \E ok \in BOOLEAN :
              IF ok /\ k \in DOMAIN roleBindings
              THEN /\ Stay(r, "rbUpdate")
                   /\ UNCHANGED <<roleBindings, passLog>>
              ELSE IF ok /\ rb.namespace \in DOMAIN namespaces
              THEN /\ roleBindings' = Put(roleBindings, k, rb)
                   /\ Goto(r, AfterRB(r), obj[r])
                   /\ Wrote(r, "rb", k)
              ELSE /\ Goto(r, AfterRB(r), obj[r])
                   /\ UNCHANGED <<roleBindings, passLog>>
    /\ UNCHANGED <<rules, namespaces, serviceAccounts, clusterRoleBindings, attached>>

\* createCR: r.Create
CreateCR(r) ==
    /\ pc[r] = "rbCreate"
    /\ LET rb == CurRB(r)
           k == Key(rb.namespace, rb.name)
       IN  \E ok \in BOOLEAN :
              IF ok /\ k \in DOMAIN roleBindings
              THEN /\ Stay(r, "rbUpdate")
                   /\ UNCHANGED <<roleBindings, passLog>>
              ELSE IF ok /\ rb.namespace \in DOMAIN namespaces
              THEN /\ roleBindings' = Put(roleBindings, k, rb)
                   /\ Goto(r, AfterRB(r), obj[r])
                   /\ Wrote(r, "rb", k)
              ELSE /\ Finish(r, Retry("error", "createCR"))
                   /\ UNCHANGED <<roleBindings, passLog>>
    /\ UNCHANGED <<rules, namespaces, serviceAccounts, clusterRoleBindings, attached>>

\* createCR: r.Update after already-exists
UpdateCR(r) ==
    /\ pc[r] = "rbUpdate"
    /\ LET rb == CurRB(r)
           k == Key(rb.namespace, rb.name)
       IN  \E ok \in BOOLEAN :
              IF ok /\ k \in DOMAIN roleBindings
              THEN /\ roleBindings' = Put(roleBindings, k, rb)
                   /\ Goto(r, AfterRB(r), obj[r])
                   /\ Wrote(r, "rb", k)
              ELSE /\ Finish(r, Retry("error", "createCR"))
                   /\ UNCHANGED <<roleBindings, passLog>>
    /\ UNCHANGED <<rules, namespaces, serviceAccounts, clusterRoleBindings, attached>>

\* Reconcile: append namespace/name to status and r.Status().Update
RecordRB(r) ==
    /\ pc[r] = "rbStatus"
    /\ LET o == [obj[r] EXCEPT !.statusRoleBindings =
                     Append(@, CurRB(r).namespace \o "/" \o CurRB(r).name)] IN
       \E ok \in BOOLEAN :
          IF ok /\ CanWrite(r)
          THEN LET n == UpdateStatus(r, o)
                   m == DecodeInto(o, n)
               IN
               /\ rules' = [rules EXCEPT ![r] = n]
               /\ Goto(r, FromRBs(parser[r], cursor[r] + 1, bidx[r], Len(m.bindings)), m)
               /\ Wrote(r, "statusRB", Key(CurRB(r).namespace, CurRB(r).name))
          ELSE /\ Finish(r, Result(0, 0, "error", "statusRB"))
               /\ UNCHANGED <<rules, passLog>>
    /\ UNCHANGED <<storeVars, attached>>

\* Reconcile: end != (time.Time{}) && end.After(time.Now())
NotYetEnded(end, t) == end # 0 /\ end > t

\* an endTime that never counts as passed
NeverEnded(end, t) == FALSE

\* Reconcile: end.Before(time.Now())
Ended(end, t) == end < t

\* Reconcile: the endTime check
EndCheck(r) ==
    /\ pc[r] = "end"
    /\ LET end == obj[r].endTime IN
          IF NotYetEnded(end, now)
          THEN Finish(r, Result(end - now, 0, "", "scheduled"))
          ELSE IF Ended(end, now)
          THEN Stay(r, "ruleDelete")
          ELSE Finish(r, Result(0, 0, "", "steady"))
    /\ UNCHANGED <<rules, storeVars, passLog, attached>>

\* Reconcile: r.Delete of the rule itself; a failure is logged and the pass
\* returns an empty result and no error
ExpireRule(r) ==
    /\ pc[r] = "ruleDelete"
    /\ \E ok \in BOOLEAN :
          IF ok /\ rules[r].exists
          THEN /\ rules' = [rules EXCEPT ![r] = DeleteRule(@)]
               /\ Finish(r, Result(0, 0, "", "expired"))
          ELSE /\ Finish(r, Result(0, 0, "", "expireFailed"))
               /\ UNCHANGED rules
    /\ UNCHANGED <<storeVars, passLog, attached>>

(***************************************************************************)
(* The Terminating sweep: reconcileDelete, deleteBindings,                 *)
(* deleteServiceAccounts.                                                  *)
(***************************************************************************)
\* reconcileDelete returns the error of the failed call, and Reconcile
\* returns it with an empty result
SweepError(exit) == Result(0, 0, "error", exit)

\* client.List under the sweep's label selector
Selected(r, objects) == {k \in DOMAIN objects : SweepSelector(r) \subseteq objects[k].labels}

\* deleteBindings: r.List of the RoleBindings
ListRBs(r) ==
    /\ pc[r] = "listRB"
    /\ \E ok \in BOOLEAN :
          IF ~ ok
          THEN Finish(r, SweepError("listRB"))
          ELSE LET l == Selected(r, roleBindings) IN
               Move(r, IF l = {} THEN AfterRBSweep(obj[r]) ELSE "delRB",
                    obj[r], 0, NoParser, 0, l)
    /\ UNCHANGED <<rules, storeVars, passLog, attached>>

\* the sweep loop of rule r takes object k of its list, stored as rec
Take(r, k, rec) ==
    /\ item' = [item EXCEPT ![r] = [key |-> k, name |-> rec.name]]
    /\ pc' = [pc EXCEPT ![r] = IF pc[r] = "delRB" THEN "updRB" ELSE "updCRB"]
    /\ UNCHANGED <<now, obj, stale, bidx, parser, cursor, items, result>>

\* deleteBindings, RoleBinding loop: r.Delete of a listed RoleBinding
DeleteRB(r) ==
    /\ pc[r] = "delRB"
    /\ \E k \in items[r], ok \in BOOLEAN :
          IF ok /\ k \in DOMAIN roleBindings
          THEN /\ roleBindings' = Del(roleBindings, k)
               /\ Take(r, k, roleBindings[k])
               /\ Wrote(r, "delRB", k)
          ELSE /\ Finish(r, SweepError("deleteRB"))
               /\ UNCHANGED <<roleBindings, passLog>>
    /\ UNCHANGED <<rules, namespaces, serviceAccounts, clusterRoleBindings, attached>>

\* deleteBindings, RoleBinding loop: the removal from status (slices.Index
\* by rb.Name, slices.Delete(s, i, i)) and r.Update of the rule
UpdateAfterDeleteRB(r) ==
    /\ pc[r] = "updRB"
    /\ LET s == obj[r].statusRoleBindings
           i == Index(s, item[r].name)
           rest == items[r] \ {item[r].key}
       IN  IF DeletePanics(s, i, i)
           THEN /\ Finish(r, Result(0, 0, "panic", "panicRB"))
                /\ UNCHANGED rules
           ELSE LET o == [obj[r] EXCEPT !.statusRoleBindings = Delete(s, i, i)] IN
                \E ok \in BOOLEAN :
                   IF ok /\ CanWrite(r)
                   THEN LET n == UpdateRule(r, o)
                            m == DecodeInto(o, n)
                        IN
                        /\ rules' = [rules EXCEPT ![r] = n]
                        /\ Move(r, IF rest = {} THEN AfterRBSweep(m) ELSE "delRB",
                                m, 0, NoParser, 0, rest)
                   ELSE /\ Finish(r, SweepError("updateRB"))
                        /\ UNCHANGED rules
    /\ UNCHANGED <<storeVars, passLog, attached>>

\* deleteBindings: r.List of the ClusterRoleBindings
ListCRBs(r) ==
    /\ pc[r] = "listCRB"
    /\ \E ok \in BOOLEAN :
          IF ~ ok
          THEN Finish(r, SweepError("listCRB"))
          ELSE LET l == Selected(r, clusterRoleBindings) IN
               Move(r, IF l = {} THEN "listSA" ELSE "delCRB", obj[r], 0, NoParser, 0, l)
    /\ UNCHANGED <<rules, storeVars, passLog, attached>>

\* deleteBindings, ClusterRoleBinding loop: r.Delete of a listed
\* ClusterRoleBinding
DeleteCRB(r) ==
    /\ pc[r] = "delCRB"
    /\ \E k \in items[r], ok \in BOOLEAN :
          IF ok /\ k \in DOMAIN clusterRoleBindings
          THEN /\ clusterRoleBindings' = Del(clusterRoleBindings, k)
               /\ Take(r, k, clusterRoleBindings[k])
               /\ Wrote(r, "delCRB", k)
          ELSE /\ Finish(r, SweepError("deleteCRB"))
               /\ UNCHANGED <<clusterRoleBindings, passLog>>
    /\ UNCHANGED <<rules, namespaces, serviceAccounts, roleBindings, attached>>

\* deleteBindings, ClusterRoleBinding loop: the removal from status and
\* r.Update of the rule
UpdateAfterDeleteCRB(r) ==
    /\ pc[r] = "updCRB"
    /\ LET s == obj[r].statusClusterRoleBindings
           i == Index(s, item[r].name)
           rest == items[r] \ {item[r].key}
       IN  IF DeletePanics(s, i, i)
           THEN /\ Finish(r, Result(0, 0, "panic", "panicCRB"))
                /\ UNCHANGED rules
           ELSE LET o == [obj[r] EXCEPT !.statusClusterRoleBindings = Delete(s, i, i)] IN
                \E ok \in BOOLEAN :
                   IF ok /\ CanWrite(r)
                   THEN LET n == UpdateRule(r, o)
                            m == DecodeInto(o, n)
                        IN
                        /\ rules' = [rules EXCEPT ![r] = n]
                        /\ Move(r, IF rest = {} THEN "listSA" ELSE "delCRB",
                                m, 0, NoParser, 0, rest)
                   ELSE /\ Finish(r, SweepError("updateCRB"))
                        /\ UNCHANGED rules
    /\ UNCHANGED <<storeVars, passLog, attached>>

\* deleteServiceAccounts: r.List
ListSAs(r) ==
    /\ pc[r] = "listSA"
    /\ \E ok \in BOOLEAN :
          IF ~ ok
          THEN Finish(r, SweepError("listSA"))
          ELSE LET l == Selected(r, serviceAccounts) IN
               Move(r, IF l = {} THEN "removeFinalizer" ELSE "delSA", obj[r], 0, NoParser, 0, l)
    /\ UNCHANGED <<rules, storeVars, passLog, attached>>

\* deleteServiceAccounts: one iteration of the loop: r.Delete, whose
\* not-found answer is skipped and whose other errors are returned
DeleteSA(r) ==
    /\ pc[r] = "delSA"
    /\ \E k \in items[r], ok \in BOOLEAN :
          IF ~ ok
          THEN /\ Finish(r, SweepError("deleteSA"))
               /\ UNCHANGED <<serviceAccounts, passLog>>
          ELSE /\ serviceAccounts' = Del(serviceAccounts, k)
               /\ Move(r, IF items[r] = {k} THEN "removeFinalizer" ELSE "delSA",
                       obj[r], 0, NoParser, 0, items[r] \ {k})
               /\ Wrote(r, IF k \in DOMAIN serviceAccounts THEN "delSA" ELSE "saNotFound", k)
    /\ UNCHANGED <<rules, namespaces, roleBindings, clusterRoleBindings, attached>>

\* reconcileDelete: RemoveFinalizer and r.Update
DetachFinalizer(r) ==
    /\ pc[r] = "removeFinalizer"
    /\ \E ok \in BOOLEAN :
          IF ok /\ CanWrite(r)
          THEN /\ rules' = [rules EXCEPT ![r] =
                              UpdateRule(r, RemoveFinalizer(obj[r], RBACRuleFinalizer))]
               /\ Finish(r, Result(0, 0, "", "finalized"))
          ELSE /\ Finish(r, SweepError("removeFinalizer"))
               /\ UNCHANGED rules
    /\ UNCHANGED <<storeVars, passLog, attached>>

\* the bodies of the three loops of the sweep
SweepLoops(r) ==
    \/ DeleteRB(r)
    \/ UpdateAfterDeleteRB(r)
    \/ DeleteCRB(r)
    \/ UpdateAfterDeleteCRB(r)
    \/ DeleteSA(r)

(***************************************************************************)
(* The environment: the clock, and a user deleting a rule.                 *)
(***************************************************************************)
Tick ==
    /\ now < MaxTime
    /\ now' = now + 1
    /\ UNCHANGED <<rules, storeVars, pc, localVars, result, passLog, attached>>

UserDelete(r) ==
    /\ rules[r].exists
    /\ ~ rules[r].deleting
    /\ rules' = [rules EXCEPT ![r] = DeleteRule(@)]
    /\ stale' = [stale EXCEPT ![r] = pc[r] # "idle"]
    /\ UNCHANGED <<now, storeVars, pc, obj, bidx, parser, cursor, items, item, result, passLog,
                   attached>>

Next ==
    \/ Tick
    \/ \E r \in RuleKeys :
          \/ UserDelete(r)
          \/ Fetch(r)
          \/ AttachFinalizer(r)
          \/ Gate(r)
          \/ ParseBinding(r)
          \/ CheckNamespaceGet(r)
          \/ CheckNamespaceCreate(r)
          \/ CreateSA(r)
          \/ UpdateSA(r)
          \/ CreateCRB(r)
          \/ UpdateCRB(r)
          \/ RecordCRB(r)
          \/ CreateCR(r)
          \/ UpdateCR(r)
          \/ RecordRB(r)
          \/ EndCheck(r)
          \/ ExpireRule(r)
          \/ ListRBs(r)
          \/ ListCRBs(r)
          \/ ListSAs(r)
          \/ DetachFinalizer(r)

Spec == Init /\ [][Next]_vars

(***************************************************************************)
(* The loops of the sweep.  The label value the sweep selects ends with    *)
(* the "-" that strings.Join puts before the empty namespace of the rule;  *)
(* the Active path writes the name of the rule, which does not end so.     *)
(* Every List of the sweep is empty, and no loop of it is entered: Next    *)
(* has the steps that can be taken, SweepSpec adds the loop bodies, and    *)
(* SweepListsNothing is an invariant of SweepSpec.                         *)
(***************************************************************************)
NextWithLoops == Next \/ \E r \in RuleKeys : SweepLoops(r)

SweepSpec == Init /\ [][NextWithLoops]_vars

SweepListsNothing ==
    \A r \in RuleKeys :
        /\ Selected(r, roleBindings) = {}
        /\ Selected(r, clusterRoleBindings) = {}
        /\ Selected(r, serviceAccounts) = {}
        /\ items[r] = {}
        /\ pc[r] \notin {"delRB", "updRB", "delCRB", "updCRB", "delSA"}

(***************************************************************************)
(* The Active path alone: passes of two rules that are not deleted and do  *)
(* not expire.  The second rule has three bindings, the middle one with a  *)
(* namespace selector; both rules declare the ServiceAccount n1/sa.        *)
(***************************************************************************)
BindingsShared ==
    << [name |-> "b1",
        subjects |-> << [kind |-> ServiceAccount, name |-> "sa", namespaces |-> <<"n1">>,
                         nameSpaceSelector |-> NoSelector,
                         namespaceMatchExpression |-> ""] >>,
        roleBindings |-> <<>>,
        clusterRoleBindings |-> <<>>] >>

BindingsThree ==
    << [name |-> "b1",
        subjects |-> << [kind |-> ServiceAccount, name |-> "sa", namespaces |-> <<"n1">>,
                         nameSpaceSelector |-> NoSelector,
                         namespaceMatchExpression |-> ""] >>,
        roleBindings |-> <<>>,
        clusterRoleBindings |-> << [clusterRole |-> "cr"] >>],
       [name |-> "b2",
        subjects |-> << [kind |-> Group, name |-> "g", namespaces |-> <<>>,
                         nameSpaceSelector |-> NoSelector,
                         namespaceMatchExpression |-> ""] >>,
        roleBindings |-> << [role |-> "ro", clusterRole |-> "", namespaces |-> <<>>,
                             nameSpaceSelector |-> DevSelector,
                             namespaceMatchExpression |-> ""] >>,
        clusterRoleBindings |-> <<>>],
       [name |-> "b3",
        subjects |-> << [kind |-> User, name |-> "u", namespaces |-> <<>>,
                         nameSpaceSelector |-> NoSelector,
                         namespaceMatchExpression |-> ""] >>,
        roleBindings |-> <<>>,
        clusterRoleBindings |-> << [clusterRole |-> "ed"] >>] >>

\* an endTime the clock does not reach
FarEnd == MaxTime + 1

InitActive ==
    /\ now = 1
    /\ rules = [r \in RuleKeys |->
                    IF r = RuleAB THEN NewRule(BindingsShared, 0, FarEnd)
                    ELSE NewRule(BindingsThree, 0, FarEnd)]
    /\ namespaces = InitialNamespaces
    /\ serviceAccounts = EmptyMap
    /\ roleBindings = EmptyMap
    /\ clusterRoleBindings = EmptyMap
    /\ pc = [r \in RuleKeys |-> "idle"]
    /\ obj = [r \in RuleKeys |-> AbsentRule]
    /\ stale = [r \in RuleKeys |-> FALSE]
    /\ bidx = [r \in RuleKeys |-> 0]
    /\ parser = [r \in RuleKeys |-> NoParser]
    /\ cursor = [r \in RuleKeys |-> 0]
    /\ items = [r \in RuleKeys |-> {}]
    /\ item = [r \in RuleKeys |-> NoItem]
    /\ result = [r \in RuleKeys |-> NoResult]
    /\ passLog = [r \in RuleKeys |-> {}]
    /\ attached = [r \in RuleKeys |-> FALSE]

NextActive ==
    \E r \in RuleKeys :
        \/ Fetch(r)
        \/ AttachFinalizer(r)
        \/ Gate(r)
        \/ ParseBinding(r)
        \/ CheckNamespaceGet(r)
        \/ CheckNamespaceCreate(r)
        \/ CreateSA(r)
        \/ UpdateSA(r)
        \/ CreateCRB(r)
        \/ UpdateCRB(r)
        \/ RecordCRB(r)
        \/ CreateCR(r)
        \/ UpdateCR(r)
        \/ RecordRB(r)
        \/ EndCheck(r)

ActiveSpec == InitActive /\ [][NextActive]_vars

(***************************************************************************)
(* The expansion alone: Parse applied to bindings drawn from bounded sets, *)
(* in clusters whose namespaces n2 and n3 may carry the label env=dev.     *)
(***************************************************************************)
\* the longest list of subjects and of RoleBindingSpecs of an input binding
MaxSubjects == 2

MaxRBSpecs == 1

\* nameSpaceSelector: {matchLabels: {}}
EmptySelector ==
    [hasMatchLabels |-> TRUE, matchLabels |-> {},
     hasMatchExpressions |-> FALSE, matchExpressions |-> <<>>]

\* nameSpaceSelector: {matchExpressions: [{key: env, operator: In, values: []}]}
BadSelector ==
    [hasMatchLabels |-> FALSE, matchLabels |-> {}, hasMatchExpressions |-> TRUE,
     matchExpressions |-> << [key |-> "env", operator |-> "In", values |-> {}] >>]

\* nameSpaceSelector: {matchLabels: {env: "not a valid value!"}}
InvalidValueSelector ==
    [hasMatchLabels |-> TRUE, matchLabels |-> {<<"env", "not a valid value!">>},
     hasMatchExpressions |-> FALSE, matchExpressions |-> <<>>]

\* nameSpaceSelector: {matchExpressions: [{key: "bad key!", operator: In, values: [dev]}]}
InvalidKeySelector ==
    [hasMatchLabels |-> FALSE, matchLabels |-> {}, hasMatchExpressions |-> TRUE,
     matchExpressions |-> << [key |-> "bad key!", operator |-> "In", values |-> {"dev"}] >>]

SeqsUpTo(S, n) == UNION {[1..k -> S] : k \in 0..n}

SubjectPool ==
    {[kind |-> User, name |-> "u", namespaces |-> <<>>, nameSpaceSelector |-> NoSelector,
      namespaceMatchExpression |-> ""],
     [kind |-> Group, name |-> "g", namespaces |-> <<>>, nameSpaceSelector |-> NoSelector,
      namespaceMatchExpression |-> ""],
     [kind |-> ServiceAccount, name |-> "s1", namespaces |-> <<"n1">>,
      nameSpaceSelector |-> NoSelector,
      namespaceMatchExpression |-> ""],
     [kind |-> ServiceAccount, name |-> "s3", namespaces |-> <<"n2">>,
      nameSpaceSelector |-> DevSelector,
      namespaceMatchExpression |-> ""],
     [kind |-> ServiceAccount, name |-> "s4", namespaces |-> <<"n1">>,
      nameSpaceSelector |-> InvalidValueSelector,
      namespaceMatchExpression |-> ""]}

RBSpecPool ==
    {[role |-> "ro", clusterRole |-> "", namespaces |-> <<"n1">>,
      nameSpaceSelector |-> NoSelector,
      namespaceMatchExpression |-> ""],
     [role |-> "", clusterRole |-> "cr", namespaces |-> <<"n1">>,
      nameSpaceSelector |-> DevSelector,
      namespaceMatchExpression |-> ""],
     [role |-> "ro", clusterRole |-> "ro", namespaces |-> <<"n2">>,
      nameSpaceSelector |-> DevSelector,
      namespaceMatchExpression |-> ""],
     [role |-> "ro", clusterRole |-> "", namespaces |-> <<>>,
      nameSpaceSelector |-> EmptySelector,
      namespaceMatchExpression |-> ""],
     [role |-> "", clusterRole |-> "cr", namespaces |-> <<"n1">>,
      nameSpaceSelector |-> BadSelector,
      namespaceMatchExpression |-> ""],
     [role |-> "ro", clusterRole |-> "", namespaces |-> <<"n1">>,
      nameSpaceSelector |-> InvalidKeySelector,
      namespaceMatchExpression |-> ""]}

CRBSpecLists == {<<>>, << [clusterRole |-> "cr"], [clusterRole |-> "ed"] >>}

\* the binding under study, and the other binding of the rule
InputBindings ==
    {[name |-> "b1", subjects |-> ss, roleBindings |-> rs, clusterRoleBindings |-> cs] :
        ss \in SeqsUpTo(SubjectPool, MaxSubjects),
        rs \in SeqsUpTo(RBSpecPool, MaxRBSpecs),
        cs \in CRBSpecLists}

OtherBinding ==
    [name |-> "b2",
     subjects |-> << [kind |-> User, name |-> "x", namespaces |-> <<>>,
                      nameSpaceSelector |-> NoSelector,
                      namespaceMatchExpression |-> ""] >>,
     roleBindings |-> <<>>,
     clusterRoleBindings |-> << [clusterRole |-> "cr"] >>]

Clusters ==
    {[n \in {"n1", "n2", "n3"} |->
         [labels |-> IF n \in dev THEN {<<"env", "dev">>} ELSE {}, owner |-> NoOwner]] :
        dev \in {{"n2"}, {"n2", "n3"}}}

InitExpand ==
    /\ now = 1
    /\ \E b \in InputBindings :
          rules = [r \in RuleKeys |->
                      IF r = RuleAB THEN NewRule(<<b, OtherBinding>>, 0, 0) ELSE AbsentRule]
    /\ namespaces \in Clusters
    /\ serviceAccounts = EmptyMap
    /\ roleBindings = EmptyMap
    /\ clusterRoleBindings = EmptyMap
    /\ pc = [r \in RuleKeys |-> "idle"]
    /\ obj = [r \in RuleKeys |-> AbsentRule]
    /\ stale = [r \in RuleKeys |-> FALSE]
    /\ bidx = [r \in RuleKeys |-> 0]
    /\ parser = [r \in RuleKeys |-> NoParser]
    /\ cursor = [r \in RuleKeys |-> 0]
    /\ items = [r \in RuleKeys |-> {}]
    /\ item = [r \in RuleKeys |-> NoItem]
    /\ result = [r \in RuleKeys |-> NoResult]
    /\ passLog = [r \in RuleKeys |-> {}]
    /\ attached = [r \in RuleKeys |-> FALSE]

\* the bindings of rule r an expansion step can be about: the one whose
\* Parse waits for a List call, or any
Expandable(r) ==
    IF parser[r].pending THEN {bidx[r]} ELSE 1..Len(rules[r].bindings)

\* what the List calls of the expansion at hand have answered
Answered(r) == IF parser[r].pending THEN parser[r].answers ELSE <<>>

\* a Parser that is kept from one binding of the rule to the next
ExpandReusingParser(r) ==
    /\ rules[r].exists
    /\ \E i \in Expandable(r) :
          \E q \in ParseSteps(rules[r].bindings[i], RBAClabels(r), ownerRef(r), r.name,
                              Answered(r), namespaces) :
             /\ parser' = [parser EXCEPT ![r] =
                    IF @.pending \/ q.pending THEN q
                    ELSE [q EXCEPT !.Subjects = parser[r].Subjects \o @,
                                   !.ClusterRoleBindings = parser[r].ClusterRoleBindings \o @,
                                   !.RoleBindings = parser[r].RoleBindings \o @]]
             /\ bidx' = [bidx EXCEPT ![r] = i]
    /\ UNCHANGED <<now, rules, storeVars, pc, obj, stale, cursor, items, item, result,
                   passLog, attached>>

\* Reconcile: a fresh Parser for a binding of the rule, and p.Parse, one
\* List call of it at a time
Expand(r) ==
    /\ rules[r].exists
    /\ \E i \in Expandable(r) :
          \E q \in ParseSteps(rules[r].bindings[i], RBAClabels(r), ownerRef(r), r.name,
                              Answered(r), namespaces) :
             /\ parser' = [parser EXCEPT ![r] = q]
             /\ bidx' = [bidx EXCEPT ![r] = i]
    /\ UNCHANGED <<now, rules, storeVars, pc, obj, stale, cursor, items, item, result,
                   passLog, attached>>

NextExpand == \E r \in RuleKeys : Expand(r)

ExpandSpec == InitExpand /\ [][NextExpand]_vars

(***************************************************************************)
(* Two rules whose generated names overlap: the binding b-b1 of rule a     *)
(* generates the ClusterRoleBinding name that binding b1 of rule a-b       *)
(* generates.  The second binding of rule a names the namespace n3, which  *)
(* does not exist.  Rule a is the one that gets deleted.                   *)
(***************************************************************************)
BindingsOverlapAB ==
    << [name |-> "b1",
        subjects |-> << [kind |-> ServiceAccount, name |-> "sa", namespaces |-> <<"n1", "n2">>,
                         nameSpaceSelector |-> NoSelector,
                         namespaceMatchExpression |-> ""] >>,
        roleBindings |-> << [role |-> "ro", clusterRole |-> "", namespaces |-> <<"n1">>,
                             nameSpaceSelector |-> NoSelector,
                             namespaceMatchExpression |-> ""] >>,
        clusterRoleBindings |-> << [clusterRole |-> "cr"] >>] >>

BindingsOverlapA ==
    << [name |-> "b-b1",
        subjects |-> << [kind |-> Group, name |-> "g", namespaces |-> <<>>,
                         nameSpaceSelector |-> NoSelector,
                         namespaceMatchExpression |-> ""] >>,
        roleBindings |-> << [role |-> "ro", clusterRole |-> "", namespaces |-> <<"n2">>,
                             nameSpaceSelector |-> NoSelector,
                             namespaceMatchExpression |-> ""] >>,
        clusterRoleBindings |-> << [clusterRole |-> "cr"] >>],
       [name |-> "b2",
        subjects |-> << [kind |-> Group, name |-> "g", namespaces |-> <<>>,
                         nameSpaceSelector |-> NoSelector,
                         namespaceMatchExpression |-> ""] >>,
        roleBindings |-> << [role |-> "ro", clusterRole |-> "", namespaces |-> <<"n3">>,
                             nameSpaceSelector |-> NoSelector,
                             namespaceMatchExpression |-> ""] >>,
        clusterRoleBindings |-> <<>>] >>

InitOverlap ==
    /\ now = 1
    /\ rules = [r \in RuleKeys |->
                    IF r = RuleAB THEN NewRule(BindingsOverlapAB, 0, FarEnd)
                    ELSE NewRule(BindingsOverlapA, 0, FarEnd)]
    /\ namespaces = InitialNamespaces
    /\ serviceAccounts = EmptyMap
    /\ roleBindings = EmptyMap
    /\ clusterRoleBindings = EmptyMap
    /\ pc = [r \in RuleKeys |-> "idle"]
    /\ obj = [r \in RuleKeys |-> AbsentRule]
    /\ stale = [r \in RuleKeys |-> FALSE]
    /\ bidx = [r \in RuleKeys |-> 0]
    /\ parser = [r \in RuleKeys |-> NoParser]
    /\ cursor = [r \in RuleKeys |-> 0]
    /\ items = [r \in RuleKeys |-> {}]
    /\ item = [r \in RuleKeys |-> NoItem]
    /\ result = [r \in RuleKeys |-> NoResult]
    /\ passLog = [r \in RuleKeys |-> {}]
    /\ attached = [r \in RuleKeys |-> FALSE]

NextOverlap ==
    \/ UserDelete(RuleA)
    \/ \E r \in RuleKeys :
          \/ Fetch(r)
          \/ AttachFinalizer(r)
          \/ Gate(r)
          \/ ParseBinding(r)
          \/ CheckNamespaceGet(r)
          \/ CheckNamespaceCreate(r)
          \/ CreateSA(r)
          \/ UpdateSA(r)
          \/ CreateCRB(r)
          \/ UpdateCRB(r)
          \/ RecordCRB(r)
          \/ CreateCR(r)
          \/ UpdateCR(r)
          \/ RecordRB(r)
          \/ EndCheck(r)
          \/ ListRBs(r)
          \/ ListCRBs(r)
          \/ ListSAs(r)
          \/ DetachFinalizer(r)

OverlapSpec == InitOverlap /\ [][NextOverlap]_vars

(***************************************************************************)
(* Changes of the spec: a user removes the last binding of the rule or     *)
(* shortens the namespace lists of a binding while the rule is reconciled  *)
(* or swept.  The webhook is registered (ENABLE_WEBHOOK is not "false").   *)
(***************************************************************************)
DropLast(s) == IF Len(s) = 0 THEN s ELSE SubSeq(s, 1, Len(s) - 1)

\* the entries of a list of subjects or RoleBindingSpecs, each with its
\* explicit namespace list one shorter
ShorterNamespaces(l) == [i \in 1..Len(l) |-> [l[i] EXCEPT !.namespaces = DropLast(@)]]

Shrunk(b) ==
    [b EXCEPT !.subjects = ShorterNamespaces(@), !.roleBindings = ShorterNamespaces(@)]

\* the values of spec.bindings one edit away from bs
SpecEdits(bs) ==
    ({DropLast(bs)} \cup {[bs EXCEPT ![i] = Shrunk(bs[i])] : i \in 1..Len(bs)}) \ {bs}

\* an update request changes spec.bindings of the rule: the webhook rewrites
\* the request (ValidateUpdate checks nothing), and the store takes it, for
\* a rule under deletion as well
UserEdit(r) ==
    /\ rules[r].exists
    /\ \E nb \in {Default(e) : e \in SpecEdits(rules[r].bindings)} \ {rules[r].bindings} :
          rules' = [rules EXCEPT ![r].bindings = nb]
    /\ stale' = [stale EXCEPT ![r] = pc[r] # "idle"]
    /\ UNCHANGED <<now, storeVars, pc, obj, bidx, parser, cursor, items, item, result, passLog,
                   attached>>

\* three bindings, the first with a second ServiceAccount subject whose
\* selector has an empty list of expressions
BindingsEdit ==
    [BindingsThree EXCEPT ![1].subjects =
        Append(@, [kind |-> ServiceAccount, name |-> "s5", namespaces |-> <<"n2">>,
                   nameSpaceSelector |-> EmptyExpressionsSelector,
                   namespaceMatchExpression |-> ""])]

\* the second rule alone
InitEdit ==
    /\ now = 1
    /\ rules = [r \in RuleKeys |->
                    IF r = RuleA THEN NewRule(BindingsEdit, 0, FarEnd) ELSE AbsentRule]
    /\ namespaces = InitialNamespaces
    /\ serviceAccounts = EmptyMap
    /\ roleBindings = EmptyMap
    /\ clusterRoleBindings = EmptyMap
    /\ pc = [r \in RuleKeys |-> "idle"]
    /\ obj = [r \in RuleKeys |-> AbsentRule]
    /\ stale = [r \in RuleKeys |-> FALSE]
    /\ bidx = [r \in RuleKeys |-> 0]
    /\ parser = [r \in RuleKeys |-> NoParser]
    /\ cursor = [r \in RuleKeys |-> 0]
    /\ items = [r \in RuleKeys |-> {}]
    /\ item = [r \in RuleKeys |-> NoItem]
    /\ result = [r \in RuleKeys |-> NoResult]
    /\ passLog = [r \in RuleKeys |-> {}]
    /\ attached = [r \in RuleKeys |-> FALSE]

NextEdit ==
    \E r \in RuleKeys :
        \/ UserEdit(r)
        \/ UserDelete(r)
        \/ ListRBs(r)
        \/ ListCRBs(r)
        \/ ListSAs(r)
        \/ DetachFinalizer(r)
        \/ Fetch(r)
        \/ AttachFinalizer(r)
        \/ Gate(r)
        \/ ParseBinding(r)
        \/ CheckNamespaceGet(r)
        \/ CheckNamespaceCreate(r)
        \/ CreateSA(r)
        \/ UpdateSA(r)
        \/ CreateCRB(r)
        \/ UpdateCRB(r)
        \/ RecordCRB(r)
        \/ CreateCR(r)
        \/ UpdateCR(r)
        \/ RecordRB(r)
        \/ EndCheck(r)

EditSpec == InitEdit /\ [][NextEdit]_vars

(***************************************************************************)
(* Repeated passes on a rule whose ServiceAccount subject resolves, by its *)
(* selector, to two namespaces: n2 and n3 carry env=dev, and each List of  *)
(* the parser returns them in one order or the other.                      *)
(***************************************************************************)
BindingsRepeat ==
    << [name |-> "b1",
        subjects |-> << [kind |-> ServiceAccount, name |-> "sa", namespaces |-> <<"n1">>,
                         nameSpaceSelector |-> DevSelector,
                         namespaceMatchExpression |-> ""] >>,
        roleBindings |-> << [role |-> "ro", clusterRole |-> "", namespaces |-> <<"n1">>,
                             nameSpaceSelector |-> NoSelector,
                             namespaceMatchExpression |-> ""] >>,
        clusterRoleBindings |-> << [clusterRole |-> "cr"] >>] >>

\* the namespaces of the cluster at the start: default, and n2 and n3 with
\* the label env=dev
NamespacesRepeat ==
    [n \in {"default", "n2", "n3"} |->
        [labels |-> IF n = "default" THEN {} ELSE {<<"env", "dev">>}, owner |-> NoOwner]]

\* the second rule alone
InitRepeat ==
    /\ now = 1
    /\ rules = [r \in RuleKeys |->
                    IF r = RuleA THEN NewRule(BindingsRepeat, 0, FarEnd) ELSE AbsentRule]
    /\ namespaces = NamespacesRepeat
    /\ serviceAccounts = EmptyMap
    /\ roleBindings = EmptyMap
    /\ clusterRoleBindings = EmptyMap
    /\ pc = [r \in RuleKeys |-> "idle"]
    /\ obj = [r \in RuleKeys |-> AbsentRule]
    /\ stale = [r \in RuleKeys |-> FALSE]
    /\ bidx = [r \in RuleKeys |-> 0]
    /\ parser = [r \in RuleKeys |-> NoParser]
    /\ cursor = [r \in RuleKeys |-> 0]
    /\ items = [r \in RuleKeys |-> {}]
    /\ item = [r \in RuleKeys |-> NoItem]
    /\ result = [r \in RuleKeys |-> NoResult]
    /\ passLog = [r \in RuleKeys |-> {}]
    /\ attached = [r \in RuleKeys |-> FALSE]

RepeatSpec == InitRepeat /\ [][NextActive]_vars


(***************************************************************************)
(* Properties.                                                             *)
(***************************************************************************)
\* the objects of a store that rule r generated
OwnedIn(r, objects) == {k \in DOMAIN objects : objects[k].owner = r}

\* rule r has a generated ServiceAccount, RoleBinding or ClusterRoleBinding
HasGenerated(r) ==
    \/ OwnedIn(r, serviceAccounts) # {}
    \/ OwnedIn(r, roleBindings) # {}
    \/ OwnedIn(r, clusterRoleBindings) # {}

\* C1: when a sweep has removed the finalizer of a rule (and with it the
\* rule), no ServiceAccount, RoleBinding or ClusterRoleBinding generated by
\* that rule remains in the cluster
C1_CleanupComplete ==
    \A r \in RuleKeys : result[r].exit = "finalized" => ~ HasGenerated(r)

\* C2: a pass that issued a Delete on the rule itself ran on a rule whose
\* endTime is set; a rule with the zero endTime is never deleted by the
\* controller
C2_NoEndNoDelete ==
    \A r \in RuleKeys :
        result[r].exit = "expired" /\ rules[r].exists => rules[r].endTime # 0


\* the positions of a pass inside the Terminating sweep
SweepPcs == {"listRB", "delRB", "updRB", "listCRB", "delCRB", "updCRB", "listSA", "delSA",
             "removeFinalizer"}

\* the returns of a sweep whose Delete call failed
DeleteFailures == {"deleteRB", "deleteCRB", "deleteSA"}

\* the positions of a pass on the Active path, from the startTime check on
ActivePcs == {"gate", "parse", "nsGet", "nsCreate", "saCreate", "saUpdate",
              "crbCreate", "crbUpdate", "crbStatus", "rbCreate", "rbUpdate",
              "rbStatus", "end", "ruleDelete"}

\* the pass of rule r takes a step
Local(r) == <<pc[r], obj[r], bidx[r], parser[r], cursor[r], items[r], item[r]>>

PassStep(r) == Local(r)' # Local(r)

\* the parsers the Parse of binding b of rule r can end with in the store as
\* it is, when no List call fails: they differ in the order of the namespaces
AllParses(r, b) == Parses(b, RBAClabels(r), ownerRef(r), r.name, namespaces)

\* what a pass over every binding of rule r writes when nothing fails
ExpectedOf(r, b) ==
    LET p == CHOOSE q \in AllParses(r, b) : TRUE IN
        {<<"sa", Key(p.Subjects[i].namespace, p.Subjects[i].name)>> :
            i \in {j \in 1..Len(p.Subjects) : p.Subjects[j].kind = ServiceAccount}}
        \cup {<<"crb", p.ClusterRoleBindings[i].name>> : i \in 1..Len(p.ClusterRoleBindings)}
        \cup {<<"rb", Key(p.RoleBindings[i].namespace, p.RoleBindings[i].name)>> :
                 i \in 1..Len(p.RoleBindings)}

Expected(r) == UNION {ExpectedOf(r, rules[r].bindings[i]) : i \in 1..Len(rules[r].bindings)}

\* the returns of a pass that went through every binding
CompletedExits == {"scheduled", "steady", "expired", "expireFailed"}

ParseFailed(r) == \E e \in passLog[r] : e[1] = "parseError"

\* the startTime check of a pass: a start in the future ends the pass with
\* nothing written and a wake-up after start - now; else the bindings follow
GatedStep(r) ==
    pc[r] = "gate" /\ PassStep(r) =>
        IF obj[r].startTime # 0 /\ obj[r].startTime > now
        THEN /\ pc'[r] = "idle"
             /\ result'[r] = Result(obj[r].startTime - now, 0, "", "pending")
             /\ passLog'[r] = {}
             /\ rules' = rules
             /\ storeVars' = storeVars
        ELSE pc'[r] \in {"parse", "end"}

\* a pass past the startTime check that went through every binding without
\* a failure wrote the full expanded set
FullSetApplied(r) ==
    result[r].exit \in CompletedExits /\ rules[r].exists /\ ~ ParseFailed(r) =>
        Expected(r) \subseteq passLog[r]

\* C4: a pass on a rule whose startTime is later than now writes no
\* Namespace, ServiceAccount, RoleBinding or ClusterRoleBinding, leaves the
\* status as it is and returns RequeueAfter = startTime - now; a pass at or
\* after startTime applies the full expanded set
C4_TimeGating ==
    /\ [][\A r \in RuleKeys : GatedStep(r)]_vars
    /\ [](\A r \in RuleKeys : FullSetApplied(r))

\* the first rule waits for its startTime: nothing of it exists yet
C4_Witness ==
    /\ result[RuleAB].exit = "pending"
    /\ result[RuleAB].requeueTicks = StartAB - now
    /\ now < StartAB
    /\ ~ HasGenerated(RuleAB)
    /\ passLog[RuleAB] = {}

\* the endTime check and the Delete of the rule: they touch no generated
\* object and no status; an endTime in the future ends the pass with a
\* wake-up after end - now, a passed one leads to the Delete of the rule
EndStep(r) ==
    /\ pc[r] = "end" /\ PassStep(r) =>
          /\ rules' = rules
          /\ storeVars' = storeVars
          /\ (obj[r].endTime # 0 /\ obj[r].endTime > now =>
                 /\ pc'[r] = "idle"
                 /\ result'[r] = Result(obj[r].endTime - now, 0, "", "scheduled"))
          /\ (obj[r].endTime # 0 /\ obj[r].endTime < now => pc'[r] = "ruleDelete")
    /\ pc[r] = "ruleDelete" /\ PassStep(r) =>
          /\ storeVars' = storeVars
          /\ rules'[r] \in {rules[r], DeleteRule(rules[r])}
          /\ \A q \in RuleKeys \ {r} : rules'[q] = rules[q]

\* a step of the Active path removes no object from the store
NothingDeleted(r) ==
    pc[r] \in ActivePcs /\ PassStep(r) =>
        /\ DOMAIN namespaces \subseteq DOMAIN namespaces'
        /\ DOMAIN serviceAccounts \subseteq DOMAIN serviceAccounts'
        /\ DOMAIN roleBindings \subseteq DOMAIN roleBindings'
        /\ DOMAIN clusterRoleBindings \subseteq DOMAIN clusterRoleBindings'

\* C5: with an endTime in the future a successful pass deletes nothing and
\* returns RequeueAfter = endTime - now; with a passed endTime the pass issues
\* a Delete on the rule itself and deletes no generated binding
C5_ScheduledEnd ==
    [][\A r \in RuleKeys : EndStep(r) /\ NothingDeleted(r)]_vars

\* the first rule has been deleted by its own pass after endTime, and what it
\* generated is still there
C5_Witness ==
    /\ result[RuleAB].exit = "expired"
    /\ now > EndAB
    /\ rules[RuleAB].deleting
    /\ OwnedIn(RuleAB, roleBindings) # {}
    /\ OwnedIn(RuleAB, clusterRoleBindings) # {}


\* nothing is created or updated in the store by the step
NothingWritten(objects, after) ==
    \A k \in DOMAIN after : k \in DOMAIN objects /\ after[k] = objects[k]

\* a pass on a rule under deletion: it starts in the sweep and stays there,
\* writes no object and adds no finalizer
DeletionStep(r) ==
    /\ pc[r] = "idle" /\ pc'[r] # "idle" /\ rules[r].deleting => pc'[r] \in SweepPcs
    /\ pc[r] # "idle" /\ obj[r].deleting /\ PassStep(r) =>
          /\ pc[r] \in SweepPcs
          /\ pc'[r] \in SweepPcs \cup {"idle"}
          /\ NothingWritten(namespaces, namespaces')
          /\ NothingWritten(serviceAccounts, serviceAccounts')
          /\ NothingWritten(roleBindings, roleBindings')
          /\ NothingWritten(clusterRoleBindings, clusterRoleBindings')
          /\ Len(rules'[r].finalizers) <= Len(rules[r].finalizers)
          /\ attached' = attached

\* C6: a pass on a rule that carries a deletion timestamp goes straight to
\* the sweep: it creates or updates no Namespace, ServiceAccount, RoleBinding
\* or ClusterRoleBinding and does not re-attach the finalizer, whatever
\* startTime and endTime are
C6_DeletionPreempts ==
    [][\A r \in RuleKeys : DeletionStep(r)]_vars

\* the first rule is swept before its startTime
C6_Witness ==
    /\ pc[RuleAB] \in SweepPcs
    /\ obj[RuleAB].deleting
    /\ obj[RuleAB].startTime > now

\* every object of the full expanded set of rule r is in the store as
\* expanded, its namespace exists, and status names every binding
ConvergedOn(r, b) ==
    \E p \in AllParses(r, b) :
        /\ \A i \in 1..Len(p.Subjects) :
              p.Subjects[i].kind = ServiceAccount =>
                 LET k == Key(p.Subjects[i].namespace, p.Subjects[i].name) IN
                     /\ p.Subjects[i].namespace \in DOMAIN namespaces
                     /\ k \in DOMAIN serviceAccounts
                     /\ serviceAccounts[k] =
                            [name |-> p.Subjects[i].name, namespace |-> p.Subjects[i].namespace,
                             labels |-> RBAClabels(r), owner |-> ownerRef(r)]
        /\ \A i \in 1..Len(p.ClusterRoleBindings) :
              LET c == p.ClusterRoleBindings[i] IN
                  /\ c.name \in DOMAIN clusterRoleBindings
                  /\ clusterRoleBindings[c.name] = c
                  /\ c.name \in Range(rules[r].statusClusterRoleBindings)
        /\ \A i \in 1..Len(p.RoleBindings) :
              LET b2 == p.RoleBindings[i]
                  k == Key(b2.namespace, b2.name)
              IN  /\ k \in DOMAIN roleBindings
                  /\ roleBindings[k] = b2
                  /\ k \in Range(rules[r].statusRoleBindings)

Converged(r) ==
    /\ rules[r].exists
    /\ ~ rules[r].deleting
    /\ ContainsFinalizer(rules[r], RBACRuleFinalizer)
    /\ \A i \in 1..Len(rules[r].bindings) : ConvergedOn(r, rules[r].bindings[i])

\* the status lists of rule r
StatusOf(rec) == <<rec.statusRoleBindings, rec.statusClusterRoleBindings>>

\* C7: a step of a pass on a converged rule leaves the generated objects,
\* their contents and the status lists as they were: no duplicate object, no
\* duplicate status entry.  Refuted under RepeatSpec: a List that returns
\* the selected namespaces in another order than the pass before makes
\* createCRB and createCR store the subjects in another order.
C7_Idempotence ==
    [][\A r \in RuleKeys :
          PassStep(r) /\ Converged(r) =>
              /\ storeVars' = storeVars
              /\ StatusOf(rules'[r]) = StatusOf(rules[r])]_vars

\* how many times finalizer f is on the object
FinalizerCount(o, f) == Len(SelectSeq(o.finalizers, LAMBDA x : x = f))

\* C8: the finalizer is attached before anything else: a pass whose
\* finalizer update failed returns the error having written nothing, a pass
\* past the finalizer block holds a copy with the finalizer, a rule never has
\* the finalizer twice, and nothing generated for a rule exists unless the
\* finalizer was attached to it before
C8_FinalizerFirst ==
    \A r \in RuleKeys :
        /\ FinalizerCount(rules[r], RBACRuleFinalizer) <= 1
        /\ (result[r].exit = "addFinalizer" => result[r].err = "error" /\ passLog[r] = {})
        /\ (pc[r] \in ActivePcs => FinalizerCount(obj[r], RBACRuleFinalizer) = 1)
        /\ (HasGenerated(r) \/ OwnedIn(r, namespaces) # {} => attached[r])

\* the update that attaches the finalizer failed: the rule has no finalizer
\* and nothing was generated for it
C8_Witness ==
    \E r \in RuleKeys :
        /\ result[r].exit = "addFinalizer"
        /\ rules[r].exists
        /\ FinalizerCount(rules[r], RBACRuleFinalizer) = 0
        /\ ~ attached[r]
        /\ ~ HasGenerated(r)

\* the returns of a pass whose status write failed
StatusFailures == {"statusCRB", "statusRB"}

\* C9: at the end of a pass whose status writes succeeded, every
\* ClusterRoleBinding and RoleBinding the pass created or updated has its
\* identifier in status, also when a later call of the pass failed
C9_StatusRecordsWrites ==
    \A r \in RuleKeys :
        pc[r] = "idle" /\ result[r].exit \notin StatusFailures /\ rules[r].exists =>
            \A e \in passLog[r] :
                /\ e[1] = "crb" => e[2] \in Range(rules[r].statusClusterRoleBindings)
                /\ e[1] = "rb" => e[2] \in Range(rules[r].statusRoleBindings)

\* the pass of the first rule stopped at a failed RoleBinding create, and
\* the ClusterRoleBinding it wrote before is in status
C9_Witness ==
    /\ result[RuleAB].exit = "createCR"
    /\ \E e \in passLog[RuleAB] :
          e[1] = "crb" /\ e[2] \in Range(rules[RuleAB].statusClusterRoleBindings)
    /\ \A e \in passLog[RuleAB] : e[1] # "rb"

\* C10: every identifier in status.roleBindings and
\* status.clusterRoleBindings of a rule, in the store and in the copy of a
\* pass, names an object that exists in the store, on the Active path and
\* through the sweep
C10_StatusNamesExisting ==
    \A r \in RuleKeys :
        /\ rules[r].exists =>
              /\ Range(rules[r].statusRoleBindings) \subseteq DOMAIN roleBindings
              /\ Range(rules[r].statusClusterRoleBindings) \subseteq DOMAIN clusterRoleBindings
        /\ Range(obj[r].statusRoleBindings) \subseteq DOMAIN roleBindings
        /\ Range(obj[r].statusClusterRoleBindings) \subseteq DOMAIN clusterRoleBindings

\* the sweep of the second rule is at the removal of the finalizer, and the
\* ClusterRoleBinding and the RoleBinding its status names are in the store:
\* the sweep listed both kinds and had nothing to delete
C10_Witness ==
    /\ pc[RuleA] = "removeFinalizer"
    /\ ContainsFinalizer(obj[RuleA], RBACRuleFinalizer)
    /\ rules[RuleA].statusClusterRoleBindings = << GenerateName("a", "b1", CRB, "cr") >>
    /\ rules[RuleA].statusRoleBindings = << Key("n2", GenerateName("a", "b1", RB, "ro")) >>
    /\ GenerateName("a", "b1", CRB, "cr") \in DOMAIN clusterRoleBindings
    /\ Key("n2", GenerateName("a", "b1", RB, "ro")) \in DOMAIN roleBindings


\* the bindings of rule r whose Parse failed in the pass
FailedBindings(r) == {e[2] : e \in {x \in passLog[r] : x[1] = "parseError"}}

\* a pass that went through the binding loop wrote the objects of every
\* binding whose own Parse did not fail
OthersApplied(r) ==
    result[r].exit \in CompletedExits /\ rules[r].exists =>
        \A i \in 1..Len(rules[r].bindings) :
            rules[r].bindings[i].name \notin FailedBindings(r) =>
                ExpectedOf(r, rules[r].bindings[i]) \subseteq passLog[r]

\* C11: a Parse failure of one binding does not end the pass; the bindings
\* before and after it are expanded and their objects created or updated in
\* the same pass
C11_BestEffort ==
    /\ [][\A r \in RuleKeys : pc[r] = "parse" /\ PassStep(r) => pc'[r] # "idle"]_vars
    /\ [](\A r \in RuleKeys : OthersApplied(r))

\* the Parse of the middle binding of the second rule failed, and the pass
\* wrote the objects of the first and of the third binding
C11_Witness ==
    /\ result[RuleA].exit = "scheduled"
    /\ FailedBindings(RuleA) = {"b2"}
    /\ <<"crb", GenerateName("a", "b1", CRB, "cr")>> \in passLog[RuleA]
    /\ <<"crb", GenerateName("a", "b3", CRB, "ed")>> \in passLog[RuleA]
    /\ \A e \in passLog[RuleA] : e[1] # "rb"


\* C12: every Namespace, ServiceAccount, RoleBinding and ClusterRoleBinding
\* generated for a rule carries the ownership label with the value the sweep
\* of that rule selects
C12_LabelResolvesOwner ==
    \A r \in RuleKeys :
        /\ \A k \in OwnedIn(r, namespaces) : SweepSelector(r) \subseteq namespaces[k].labels
        /\ \A k \in OwnedIn(r, serviceAccounts) :
              SweepSelector(r) \subseteq serviceAccounts[k].labels
        /\ \A k \in OwnedIn(r, roleBindings) : SweepSelector(r) \subseteq roleBindings[k].labels
        /\ \A k \in OwnedIn(r, clusterRoleBindings) :
              SweepSelector(r) \subseteq clusterRoleBindings[k].labels

\* the returns of a pass stopped by a failed create or update of an object
MutationFailures == {"checkNamespace", "createSA", "createCRB", "createCR"}

\* C13: a pass stopped by a failed create or update of a Namespace,
\* ServiceAccount, ClusterRoleBinding or RoleBinding returns RequeueAfter
\* 500 ms and a nil error, for the four kinds alike
C13_UniformRetry ==
    \A r \in RuleKeys :
        result[r].exit \in MutationFailures =>
            result[r] = Result(0, RetryDelayMs, "", result[r].exit)


(***************************************************************************)
(* Properties of the expansion.                                            *)
(***************************************************************************)
\* a binding of the first rule has been expanded: the binding, and what the
\* parser holds after Parse
Expanded == bidx[RuleAB] # 0 /\ ~ parser[RuleAB].pending

Input == rules[RuleAB].bindings[bidx[RuleAB]]

Output == parser[RuleAB]

\* C14: two distinct objects of one kind and one namespace that the
\* expansion of a rule emits have different names
C14_NamesCollisionFree ==
    Expanded =>
        /\ \A i, j \in 1..Len(Output.RoleBindings) :
              LET x == Output.RoleBindings[i]
                  y == Output.RoleBindings[j]
              IN  x # y => <<x.namespace, x.name>> # <<y.namespace, y.name>>
        /\ \A i, j \in 1..Len(Output.ClusterRoleBindings) :
              LET x == Output.ClusterRoleBindings[i]
                  y == Output.ClusterRoleBindings[j]
              IN  x # y => x.name # y.name


\* the namespaces of the cluster a selector matches; a subject or spec that
\* sets no selector selects none
Matching(sel) ==
    IF Len(sel.matchExpressions) > 0 \/ sel.hasMatchLabels
    THEN {n \in DOMAIN namespaces : SelectorMatches(sel, namespaces[n].labels)}
    ELSE {}

\* explicit list and selector result of a subject or RoleBindingSpec
Resolved(x) == Range(x.namespaces) \cup Matching(x.nameSpaceSelector)

DeclaredSAs == {s \in Range(Input.subjects) : s.kind = ServiceAccount}

\* the namespaces in which the expansion placed the ServiceAccount named n,
\* and the RoleBindings that refer to role n by kind k
SANamespaces(n) ==
    {s.namespace : s \in {x \in Range(Output.Subjects) :
                              x.kind = ServiceAccount /\ x.name = n}}

RBNamespaces(k, n) ==
    {b.namespace : b \in {x \in Range(Output.RoleBindings) :
                              x.roleRef.kind = k /\ x.roleRef.name = n}}

\* C15: the namespaces used for a ServiceAccount subject or a
\* RoleBindingSpec are the explicit ones and the ones the selector matches,
\* no more and no less
C15_NamespaceUnion ==
    Expanded /\ ~ Output.err =>
        /\ \A d \in DeclaredSAs :
              SANamespaces(d.name) = UNION {Resolved(e) : e \in {x \in DeclaredSAs : x.name = d.name}}
        /\ \A d \in Range(Input.roleBindings) :
              /\ d.role # "" =>
                    RBNamespaces(RB, d.role) =
                        UNION {Resolved(e) : e \in {x \in Range(Input.roleBindings) : x.role = d.role}}
              /\ d.clusterRole # "" =>
                    RBNamespaces(CRB, d.clusterRole) =
                        UNION {Resolved(e) :
                                  e \in {x \in Range(Input.roleBindings) : x.clusterRole = d.clusterRole}}

\* a RoleBindingSpec with namespaces [n1] and a selector matching {n2, n3}
\* was expanded into RoleBindings in n1, n2 and n3
C15_Witness ==
    /\ Expanded
    /\ ~ Output.err
    /\ \E d \in Range(Input.roleBindings) :
          /\ d.namespaces = <<"n1">>
          /\ Matching(d.nameSpaceSelector) = {"n2", "n3"}
          /\ d.clusterRole = "cr"
    /\ RBNamespaces(CRB, "cr") = {"n1", "n2", "n3"}


\* a selector with no match label and no match expression, its matchLabels
\* map absent or present
IsEmptySelector(sel) == sel.matchLabels = {} /\ sel.matchExpressions = <<>>

SpecsOfRole(n) == {x \in Range(Input.roleBindings) : x.role = n}

\* C16: an empty selector resolves to no namespace: the RoleBindings of
\* specs whose selector is empty are placed in the explicit namespaces only
C16_EmptySelectorSelectsNone ==
    Expanded /\ ~ Output.err =>
        \A d \in Range(Input.roleBindings) :
            d.role # "" /\ (\A e \in SpecsOfRole(d.role) : IsEmptySelector(e.nameSpaceSelector)) =>
                RBNamespaces(RB, d.role) \subseteq
                    UNION {Range(e.namespaces) : e \in SpecsOfRole(d.role)}


\* how many RoleBindings of namespace ns refer to role n by kind k, and how
\* many RoleBindingSpecs ask for one there
EmittedRBs(k, n, ns) ==
    Cardinality({i \in 1..Len(Output.RoleBindings) :
                    /\ Output.RoleBindings[i].roleRef.kind = k
                    /\ Output.RoleBindings[i].roleRef.name = n
                    /\ Output.RoleBindings[i].namespace = ns})

AskedRBs(k, n, ns) ==
    Cardinality({j \in 1..Len(Input.roleBindings) :
                    /\ n = (IF k = RB THEN Input.roleBindings[j].role
                            ELSE Input.roleBindings[j].clusterRole)
                    /\ ns \in Resolved(Input.roleBindings[j])})

\* C17: each RoleBindingSpec yields one RoleBinding per resolved namespace
\* and non-empty role or clusterRole field, placed in that namespace and
\* listing the full expanded subject list of the binding
C17_CrossProduct ==
    Expanded /\ ~ Output.err =>
        /\ \A d \in Range(Input.roleBindings), ns \in DOMAIN namespaces :
              /\ d.role # "" => EmittedRBs(RB, d.role, ns) = AskedRBs(RB, d.role, ns)
              /\ d.clusterRole # "" =>
                    EmittedRBs(CRB, d.clusterRole, ns) = AskedRBs(CRB, d.clusterRole, ns)
        /\ \A i \in 1..Len(Output.RoleBindings) :
              Output.RoleBindings[i].subjects = Output.Subjects

\* how many subject records of a kind, name and namespace the expansion
\* holds, and how many declared subjects ask for one
EmittedSubjects(k, n, ns) ==
    Cardinality({i \in 1..Len(Output.Subjects) :
                    /\ Output.Subjects[i].kind = k
                    /\ Output.Subjects[i].name = n
                    /\ Output.Subjects[i].namespace = ns})

AskedSubjects(k, n, ns) ==
    Cardinality({j \in 1..Len(Input.subjects) :
                    /\ Input.subjects[j].kind = k
                    /\ Input.subjects[j].name = n
                    /\ IF k = ServiceAccount THEN ns \in Resolved(Input.subjects[j])
                       ELSE ns = ""})

\* C18: a User or Group subject yields one record with empty namespace, a
\* ServiceAccount subject one record per resolved namespace, also for a
\* namespace that is listed explicitly and matched by the selector
C18_SubjectExpansion ==
    Expanded /\ ~ Output.err =>
        \A d \in Range(Input.subjects), ns \in DOMAIN namespaces \cup {""} :
            EmittedSubjects(d.kind, d.name, ns) = AskedSubjects(d.kind, d.name, ns)


\* the subject records the subjects of binding b alone expand to
OwnSubjects(b) ==
    IF Len(b.subjects) > 0 THEN parseSubjects(b.subjects, Output.answers).Subjects ELSE <<>>

\* C19: the expansion of a binding emits one ClusterRoleBinding per
\* ClusterRoleBindingSpec, in order, and every ClusterRoleBinding and
\* RoleBinding of the binding carries the one subject list that the
\* subjects of this binding expand to, with nothing of another binding
C19_SharedSubjects ==
    Expanded /\ ~ Output.err =>
        /\ Output.Subjects = OwnSubjects(Input)
        /\ Len(Output.ClusterRoleBindings) = Len(Input.clusterRoleBindings)
        /\ \A i \in 1..Len(Output.ClusterRoleBindings) :
              /\ Output.ClusterRoleBindings[i].roleRef.name = Input.clusterRoleBindings[i].clusterRole
              /\ Output.ClusterRoleBindings[i].subjects = Output.Subjects
        /\ \A i \in 1..Len(Output.RoleBindings) :
              Output.RoleBindings[i].subjects = Output.Subjects
        /\ \A s \in Range(Output.Subjects) :
              \E d \in Range(Input.subjects) : d.kind = s.kind /\ d.name = s.name

\* a binding with two subjects, two ClusterRoleBindingSpecs and a
\* RoleBindingSpec was expanded: two ClusterRoleBindings and the
\* RoleBindings, all with the two subject records
C19_Witness ==
    /\ Expanded
    /\ ~ Output.err
    /\ Input.name = "b1"
    /\ Len(Output.Subjects) = 2
    /\ Len(Output.ClusterRoleBindings) = 2
    /\ Len(Output.RoleBindings) > 0
    /\ Output.ClusterRoleBindings[2].subjects = Output.Subjects
    /\ Output.RoleBindings[1].subjects = Output.Subjects


(***************************************************************************)
(* Properties of concurrent rules.                                         *)
(***************************************************************************)
\* the objects that stay keep owner reference and ownership label
OwnershipKept(objects, after) ==
    \A k \in DOMAIN objects \cap DOMAIN after :
        after[k].owner = objects[k].owner /\ after[k].labels = objects[k].labels

\* a step of the pass of rule r removes objects of rule r only
DeletesOwnOnly(r, objects, after) ==
    PassStep(r) => \A k \in DOMAIN objects \ DOMAIN after : objects[k].owner = r

\* C20: a generated object belongs to the rule that generated it for its
\* whole lifetime: no pass of another rule changes its owner reference or
\* ownership label, and no sweep of another rule deletes it
C20_ExclusiveOwnership ==
    [][/\ OwnershipKept(serviceAccounts, serviceAccounts')
       /\ OwnershipKept(roleBindings, roleBindings')
       /\ OwnershipKept(clusterRoleBindings, clusterRoleBindings')
       /\ \A r \in RuleKeys :
             /\ DeletesOwnOnly(r, serviceAccounts, serviceAccounts')
             /\ DeletesOwnOnly(r, roleBindings, roleBindings')
             /\ DeletesOwnOnly(r, clusterRoleBindings, clusterRoleBindings')]_vars


(***************************************************************************)
(* Properties of the Terminating sweep.                                    *)
(***************************************************************************)
\* C21: in the sweep each successful delete of a RoleBinding or
\* ClusterRoleBinding takes that object's identifier (namespace/name for a
\* RoleBinding) out of the status list, the lookup-and-remove step never
\* panics, and a sweep that comes to the removal of the finalizer has
\* emptied both status lists
C21_SweepCleansStatus ==
    \A r \in RuleKeys :
        /\ result[r].err # "panic"
        /\ pc[r] \in SweepPcs =>
              \A e \in passLog[r] :
                  /\ e[1] = "delRB" => e[2] \notin Range(obj[r].statusRoleBindings)
                  /\ e[1] = "delCRB" => e[2] \notin Range(obj[r].statusClusterRoleBindings)
        /\ pc[r] = "removeFinalizer" /\ ContainsFinalizer(obj[r], RBACRuleFinalizer) =>
              /\ obj[r].statusRoleBindings = <<>>
              /\ obj[r].statusClusterRoleBindings = <<>>

\* the objects that carry the ownership label of rule r, as the Active path
\* writes it
Labelled(r, objects) == {k \in DOMAIN objects : RBAClabels(r) \subseteq objects[k].labels}

\* C22: the sweep selects by the ownership label alone: a sweep that comes
\* to the removal of the finalizer has left no RoleBinding,
\* ClusterRoleBinding or ServiceAccount that carries the label of the rule,
\* whatever status.roleBindings and status.clusterRoleBindings hold
C22_SweepByLabelAlone ==
    [][\A r \in RuleKeys :
          pc[r] \in SweepPcs /\ pc'[r] = "removeFinalizer"
              /\ ContainsFinalizer(obj'[r], RBACRuleFinalizer) =>
                  /\ Labelled(r, roleBindings') = {}
                  /\ Labelled(r, clusterRoleBindings') = {}
                  /\ Labelled(r, serviceAccounts') = {}]_vars


(***************************************************************************)
(* Properties of the order of a pass.                                      *)
(***************************************************************************)
\* the positions of a pass inside one binding, by the loop they belong to
SubjectPcs == {"nsGet", "nsCreate", "saCreate", "saUpdate"}

CRBPcs == {"crbCreate", "crbUpdate", "crbStatus"}

RBPcs == {"rbCreate", "rbUpdate", "rbStatus"}

BindingPcs == SubjectPcs \cup CRBPcs \cup RBPcs

\* the place of position p in a sequence of loops; 0 before the first loop
StageOf(p, loops) ==
    IF \E i \in 1..Len(loops) : p \in loops[i]
    THEN CHOOSE i \in 1..Len(loops) : p \in loops[i]
    ELSE 0

\* a step of the pass of rule r keeps to the order of the bindings and,
\* inside a binding, to the order of the loops
OrderedStep(r, loops) ==
    PassStep(r) =>
        /\ pc'[r] = "parse" =>
              /\ pc[r] \in {"gate", "parse"} \cup BindingPcs
              /\ bidx'[r] = IF parser'[r].pending THEN bidx[r] ELSE bidx[r] + 1
              /\ parser'[r].pending => pc[r] = "parse"
        /\ pc'[r] \in BindingPcs =>
              /\ pc[r] \in {"parse"} \cup BindingPcs
              /\ bidx'[r] = bidx[r]
              /\ StageOf(pc'[r], loops) >= StageOf(pc[r], loops)
        /\ pc'[r] = "end" => bidx[r] = Len(obj[r].bindings)

\* the subjects of the binding the pass of rule r is at, fully expanded, in
\* the orders the namespaces can come in
FullSubjects(r) == {p.Subjects : p \in AllParses(r, obj[r].bindings[bidx[r]])}

\* a RoleBinding or ClusterRoleBinding written by the step has the fully
\* expanded subjects of its binding
WritesFullSubjects(r) ==
    /\ PassStep(r) /\ pc[r] \in CRBPcs /\ clusterRoleBindings' # clusterRoleBindings =>
          clusterRoleBindings'[CurCRB(r).name].subjects \in FullSubjects(r)
    /\ PassStep(r) /\ pc[r] \in RBPcs /\ roleBindings' # roleBindings =>
          roleBindings'[Key(CurRB(r).namespace, CurRB(r).name)].subjects \in FullSubjects(r)

\* C23 as stated: bindings in declaration order and, within a binding,
\* ServiceAccount subjects first, then RoleBindings, then ClusterRoleBindings;
\* every binding object written has the fully expanded subjects
C23_OrderAsClaimed ==
    [][\A r \in RuleKeys :
          OrderedStep(r, <<SubjectPcs, RBPcs, CRBPcs>>) /\ WritesFullSubjects(r)]_vars

\* C23, amended: bindings in declaration order and, within a binding,
\* ServiceAccount subjects (with their namespaces) first, then
\* ClusterRoleBindings, then RoleBindings; every binding object written has
\* the fully expanded subjects
C23_PassOrder ==
    [][\A r \in RuleKeys :
          OrderedStep(r, <<SubjectPcs, CRBPcs, RBPcs>>) /\ WritesFullSubjects(r)]_vars

\* the pass of the first rule wrote its ServiceAccounts and then its
\* ClusterRoleBinding and is at the RoleBinding; the pass of the second rule
\* wrote the objects of its first binding and is at the second
C23_Witness ==
    /\ pc[RuleAB] = "rbCreate"
    /\ <<"sa", "n1/sa">> \in passLog[RuleAB]
    /\ <<"sa", "n2/sa">> \in passLog[RuleAB]
    /\ <<"crb", GenerateName("a-b", "b1", CRB, "cr")>> \in passLog[RuleAB]
    /\ \A e \in passLog[RuleAB] : e[1] # "rb"
    /\ pc[RuleA] = "rbCreate"
    /\ bidx[RuleA] = 2
    /\ <<"crb", GenerateName("a", "b-b1", CRB, "cr")>> \in passLog[RuleA]
    /\ <<"rb", Key("n2", GenerateName("a", "b-b1", RB, "ro"))>> \in passLog[RuleA]


(***************************************************************************)
(* Properties of the Active path under overlapping rules.                  *)
(***************************************************************************)
\* C25: when a pass comes to the create of a ServiceAccount or of a
\* RoleBinding in namespace n, it has ensured that n exists (it found the
\* Namespace or created it)
C25_NamespaceOnDemand ==
    \A r \in RuleKeys :
        /\ pc[r] \in {"saCreate", "saUpdate"} =>
              CurSubject(r).namespace \in DOMAIN namespaces
        /\ pc[r] \in {"rbCreate", "rbUpdate"} =>
              CurRB(r).namespace \in DOMAIN namespaces


(***************************************************************************)
(* Properties of failures and of repeated passes.                          *)
(***************************************************************************)
\* what a pass writes and records for binding b of rule r
DerivedFrom(r, b) ==
    ExpectedOf(r, b)
    \cup {<<"statusCRB", e[2]>> : e \in {x \in ExpectedOf(r, b) : x[1] = "crb"}}
    \cup {<<"statusRB", e[2]>> : e \in {x \in ExpectedOf(r, b) : x[1] = "rb"}}

\* C26: when the expansion of a binding fails in the Namespace Resolver, the
\* pass creates or updates no ServiceAccount, RoleBinding or
\* ClusterRoleBinding derived from that binding and records nothing of it in
\* status
C26_FailedBindingAborted ==
    \A r \in RuleKeys :
        rules[r].exists =>
            \A i \in 1..Len(rules[r].bindings) :
                rules[r].bindings[i].name \in FailedBindings(r) =>
                    DerivedFrom(r, rules[r].bindings[i]) \cap passLog[r] = {}


\* what the step of rule r adds to the log of its pass
Logged(r) == passLog'[r] \ passLog[r]

\* a create that meets an existing object changes nothing in the store and
\* leads to the update (or the call itself fails); an update or create that
\* succeeds leaves the object as the pass generated it
UpsertStep(r) ==
    PassStep(r) =>
        /\ pc[r] = "saCreate" /\ Key(NewSA(r).namespace, NewSA(r).name) \in DOMAIN serviceAccounts =>
              pc'[r] \in {"saUpdate", "idle"} /\ storeVars' = storeVars
        /\ pc[r] = "crbCreate" /\ CurCRB(r).name \in DOMAIN clusterRoleBindings =>
              pc'[r] \in {"crbUpdate", "idle"} /\ storeVars' = storeVars
        /\ pc[r] = "rbCreate" /\ Key(CurRB(r).namespace, CurRB(r).name) \in DOMAIN roleBindings =>
              pc'[r] \in {"rbUpdate", "idle"} /\ storeVars' = storeVars
        /\ \A e \in Logged(r) :
              /\ e[1] = "sa" =>
                    e[2] \in DOMAIN serviceAccounts' /\ serviceAccounts'[e[2]] = NewSA(r)
              /\ e[1] = "crb" =>
                    e[2] \in DOMAIN clusterRoleBindings' /\ clusterRoleBindings'[e[2]] = CurCRB(r)
              /\ e[1] = "rb" =>
                    e[2] \in DOMAIN roleBindings' /\ roleBindings'[e[2]] = CurRB(r)
        /\ pc[r] \in {"saUpdate", "crbUpdate", "rbUpdate"} /\ pc'[r] # "idle" =>
              \E e \in Logged(r) \cup passLog[r] : e[1] \in {"sa", "crb", "rb"}

\* C27: a create that meets an existing ServiceAccount, RoleBinding or
\* ClusterRoleBinding is followed by an update that replaces the stored
\* object: after it, subjects, role reference, labels and owner reference are
\* the freshly generated ones
C27_UpsertReplaces ==
    [][\A r \in RuleKeys : UpsertStep(r)]_vars

\* the pass of the second rule met the ClusterRoleBinding that the first rule
\* had written under the same name and replaced it: the stored object has
\* the subjects, label and owner of the second rule
C27_Witness ==
    LET n == GenerateName("a", "b-b1", CRB, "cr") IN
        /\ <<"crb", n>> \in passLog[RuleAB]
        /\ <<"crb", n>> \in passLog[RuleA]
        /\ pc[RuleA] \in {"crbStatus", "rbCreate"}
        /\ n \in DOMAIN clusterRoleBindings
        /\ clusterRoleBindings[n].owner = RuleA
        /\ clusterRoleBindings[n].labels = RBAClabels(RuleA)
        /\ clusterRoleBindings[n].subjects =
               << [apiGroup |-> RBACApiGroup, kind |-> Group, name |-> "g", namespace |-> ""] >>


\* the returns of a pass that stopped at a failed call to the store
FailedCallExits ==
    {"get", "addFinalizer", "expireFailed", "removeFinalizer",
     "listRB", "listCRB", "listSA", "updateRB", "updateCRB"}
    \cup MutationFailures \cup StatusFailures \cup DeleteFailures

\* the pass asks to be run again: it returns an error or a RequeueAfter
AsksRetry(res) == res.err # "" \/ res.requeueMs > 0 \/ res.requeueTicks > 0

\* C29: a pass in which a call to the store failed asks for a retry: it never
\* returns an empty result with a nil error, the pass whose Delete of the
\* expired rule failed included
C29_FailuresRetried ==
    \A r \in RuleKeys : result[r].exit \in FailedCallExits => AsksRetry(result[r])


\* no element occurs twice in the sequence
NoDuplicates(s) == \A i, j \in 1..Len(s) : s[i] = s[j] => i = j

\* C30: status.roleBindings and status.clusterRoleBindings never hold an
\* identifier twice, in the store and in the copy of a pass, and a pass comes
\* to the status write only for an identifier that is not in the list
C30_StatusNoDuplicates ==
    \A r \in RuleKeys :
        /\ NoDuplicates(rules[r].statusRoleBindings)
        /\ NoDuplicates(rules[r].statusClusterRoleBindings)
        /\ NoDuplicates(obj[r].statusRoleBindings)
        /\ NoDuplicates(obj[r].statusClusterRoleBindings)
        /\ pc[r] = "crbStatus" =>
              CurCRB(r).name \notin Range(obj[r].statusClusterRoleBindings)
        /\ pc[r] = "rbStatus" =>
              Key(CurRB(r).namespace, CurRB(r).name) \notin Range(obj[r].statusRoleBindings)

\* a later pass of the first rule updated its ClusterRoleBinding and its
\* RoleBinding, found both recorded and wrote no status: each list still
\* holds its one identifier
C30_Witness ==
    /\ result[RuleAB].exit = "scheduled"
    /\ <<"crb", GenerateName("a-b", "b1", CRB, "cr")>> \in passLog[RuleAB]
    /\ <<"rb", Key("n1", GenerateName("a-b", "b1", RB, "ro"))>> \in passLog[RuleAB]
    /\ \A e \in passLog[RuleAB] : e[1] \notin StatusFailures
    /\ rules[RuleAB].statusClusterRoleBindings = << GenerateName("a-b", "b1", CRB, "cr") >>
    /\ rules[RuleAB].statusRoleBindings = << Key("n1", GenerateName("a-b", "b1", RB, "ro")) >>


(***************************************************************************)
(* Properties of the Active path under changes of the spec.                *)
(***************************************************************************)
\* a step of the Active path takes no entry out of the status lists, in the
\* store and in the copy of the pass
KeepsStatus(r) ==
    pc[r] \in ActivePcs /\ PassStep(r) =>
        /\ rules'[r].exists =>
              /\ Range(rules[r].statusRoleBindings) \subseteq Range(rules'[r].statusRoleBindings)
              /\ Range(rules[r].statusClusterRoleBindings)
                     \subseteq Range(rules'[r].statusClusterRoleBindings)
        /\ pc'[r] # "idle" =>
              /\ Range(obj[r].statusRoleBindings) \subseteq Range(obj'[r].statusRoleBindings)
              /\ Range(obj[r].statusClusterRoleBindings)
                     \subseteq Range(obj'[r].statusClusterRoleBindings)

\* C31: a pass on a rule without deletion timestamp deletes no Namespace,
\* ServiceAccount, RoleBinding or ClusterRoleBinding and takes no entry out
\* of status: what was generated from a binding that has left the spec, or
\* for a namespace that has left a binding, stays
C31_ActiveNeverRemoves ==
    [][\A r \in RuleKeys : NothingDeleted(r) /\ KeepsStatus(r)]_vars

\* the third binding has left the spec and the subjects of the first have
\* lost their namespaces.  The update that attached the finalizer had
\* stored the second subject without its empty list of expressions, so the
\* webhook wrote the default namespace for both subjects; a pass over the
\* new spec has run through and made both ServiceAccounts in default, and
\* the ClusterRoleBinding of the third binding and the ServiceAccounts in
\* n1 and n2 are still there, the ClusterRoleBinding still in status
C31_Witness ==
    /\ Len(rules[RuleA].bindings) = 2
    /\ rules[RuleA].bindings[1].subjects[1].namespaces = << DEFAULT_NAMESPACE >>
    /\ rules[RuleA].bindings[1].subjects[2].namespaces = << DEFAULT_NAMESPACE >>
    /\ rules[RuleA].bindings[1].subjects[2].nameSpaceSelector = NoSelector
    /\ result[RuleA].exit = "scheduled"
    /\ <<"crb", GenerateName("a", "b1", CRB, "cr")>> \in passLog[RuleA]
    /\ <<"sa", Key(DEFAULT_NAMESPACE, "sa")>> \in passLog[RuleA]
    /\ <<"sa", Key(DEFAULT_NAMESPACE, "s5")>> \in passLog[RuleA]
    /\ \A e \in passLog[RuleA] :
          /\ e \notin {<<"sa", Key("n1", "sa")>>, <<"sa", Key("n2", "s5")>>}
          /\ e # <<"crb", GenerateName("a", "b3", CRB, "ed")>>
    /\ Key("n1", "sa") \in DOMAIN serviceAccounts
    /\ Key("n2", "s5") \in DOMAIN serviceAccounts
    /\ GenerateName("a", "b3", CRB, "ed") \in DOMAIN clusterRoleBindings
    /\ GenerateName("a", "b3", CRB, "ed") \in Range(rules[RuleA].statusClusterRoleBindings)


(***************************************************************************)
(* Retried passes of one rule that is neither changed nor deleted.  The    *)
(* work queue runs the rule again after a pass that returned an error or   *)
(* asked for a short requeue, and no call of the store fails forever.      *)
(***************************************************************************)
InitHeal ==
    /\ now = 1
    /\ rules = [r \in RuleKeys |->
                    IF r = RuleAB THEN NewRule(BindingsAB, 0, FarEnd) ELSE AbsentRule]
    /\ namespaces = InitialNamespaces
    /\ serviceAccounts = EmptyMap
    /\ roleBindings = EmptyMap
    /\ clusterRoleBindings = EmptyMap
    /\ pc = [r \in RuleKeys |-> "idle"]
    /\ obj = [r \in RuleKeys |-> AbsentRule]
    /\ stale = [r \in RuleKeys |-> FALSE]
    /\ bidx = [r \in RuleKeys |-> 0]
    /\ parser = [r \in RuleKeys |-> NoParser]
    /\ cursor = [r \in RuleKeys |-> 0]
    /\ items = [r \in RuleKeys |-> {}]
    /\ item = [r \in RuleKeys |-> NoItem]
    /\ result = [r \in RuleKeys |-> NoResult]
    /\ passLog = [r \in RuleKeys |-> {}]
    /\ attached = [r \in RuleKeys |-> FALSE]

\* the rule is in the work queue: its create event, or the last pass
\* returned an error or a requeue after RetryDelayMs
Requeued(r) == result[r] = NoResult \/ result[r].err # "" \/ result[r].requeueMs > 0

\* the call of the pass at hand goes through
Succeeds(r) == pc'[r] # "idle"

HealFairness ==
    LET r == RuleAB IN
        /\ SF_vars(Requeued(r) /\ Fetch(r) /\ Succeeds(r))
        /\ SF_vars(AttachFinalizer(r) /\ Succeeds(r))
        /\ WF_vars(Gate(r))
        /\ WF_vars(ParseBinding(r))
        /\ SF_vars(CheckNamespaceGet(r) /\ Succeeds(r))
        /\ SF_vars(CheckNamespaceCreate(r) /\ Succeeds(r))
        /\ SF_vars(CreateSA(r) /\ Succeeds(r))
        /\ SF_vars(UpdateSA(r) /\ Succeeds(r))
        /\ SF_vars(CreateCRB(r) /\ Succeeds(r))
        /\ SF_vars(UpdateCRB(r) /\ Succeeds(r))
        /\ SF_vars(RecordCRB(r) /\ Succeeds(r))
        /\ SF_vars(CreateCR(r) /\ Succeeds(r))
        /\ SF_vars(UpdateCR(r) /\ Succeeds(r))
        /\ SF_vars(RecordRB(r) /\ Succeeds(r))
        /\ WF_vars(EndCheck(r))

HealSpec == InitHeal /\ [][NextActive]_vars /\ HealFairness

\* what the rule of HealSpec generates
HealParsed == Parse(BindingsAB[1], RBAClabels(RuleAB), ownerRef(RuleAB), RuleAB.name, <<>>)
HealCRBs == {HealParsed.ClusterRoleBindings[i].name : i \in 1..Len(HealParsed.ClusterRoleBindings)}
HealRBs ==
    {Key(HealParsed.RoleBindings[i].namespace, HealParsed.RoleBindings[i].name) :
        i \in 1..Len(HealParsed.RoleBindings)}

\* C32: a ClusterRoleBinding or RoleBinding that is in the store, created by
\* a pass whose status write may have failed, is in the status of its rule
\* at some later time: a retried pass finds it by already-exists, updates
\* it and appends its identifier
C32_StatusSelfHeals ==
    /\ \A k \in HealCRBs :
          (k \in DOMAIN clusterRoleBindings)
              ~> (k \in Range(rules[RuleAB].statusClusterRoleBindings))
    /\ \A k \in HealRBs :
          (k \in DOMAIN roleBindings) ~> (k \in Range(rules[RuleAB].statusRoleBindings))

\* a retried pass has hit already-exists on a ClusterRoleBinding that an
\* earlier pass created without recording it: the status write had failed
C32_Witness ==
    /\ pc[RuleAB] = "crbUpdate"
    /\ result[RuleAB] = NoResult
    /\ CurCRB(RuleAB).name \in DOMAIN clusterRoleBindings
    /\ CurCRB(RuleAB).name \notin Range(rules[RuleAB].statusClusterRoleBindings)
    /\ HealCRBs # {} /\ HealRBs # {}

=============================================================================
